---- MODULE Spec2Model ----
(***************************************************************************)
(* Verification model of moveit_grasps' GraspGenerator                     *)
(* (src/src/grasp_generator.cpp, src/include/moveit_grasps/grasp_data.h).  *)
(*                                                                         *)
(* Numbers.  The program computes in double; the model computes exactly in *)
(* integers and rationals:                                                 *)
(*   - lengths and coordinates are integers in units of 0.1 mm;            *)
(*   - a double that is the quotient of two such quantities (the line      *)
(*     parameter t, a score) is the record [n |-> num, d |-> den]; d = 0   *)
(*     is the IEEE result of the division by zero (+/-inf, or NaN for 0/0),*)
(*     on which every comparison the code makes is false unless stated;    *)
(*   - angles are integer degrees (GraspData::angle_resolution_ is an int  *)
(*     of degrees), and the unit Z axis of a rotated pose comes from the   *)
(*     cosine table CosT, scaled by DirScale.                              *)
(***************************************************************************)
EXTENDS Integers, Sequences, FiniteSets, TLC

VARIABLES
  ih_in, ih_out,        \* intersectionHelper: arguments of the call, result
  gih_in, gih_out,      \* graspIntersectionHelper: arguments, result
  grasp_score_weights_, \* GraspGenerator::grasp_score_weights_
  sub_scores,           \* what the GraspScorer functions return for the pose being scored
  grasp_quality,        \* new_grasp.grasp_quality as set by addGrasp
  grasp_data,           \* the GraspData profile of the call
  call,                 \* arguments of the generation call in progress
  pc,                   \* position of the generation call in its code
  grasp_poses,          \* std::vector<Eigen::Isometry3d> grasp_poses of the call
  locals,               \* local variables of the generation function that outlive a stage
  grasp_candidates,     \* the caller's std::vector<GraspCandidatePtr>
  grasp_id,             \* static std::size_t grasp_id of addGrasp
  width_calls,          \* the calls of GraspData::setGraspWidth made so far, with their results
  result,               \* return value of the generation call
  ideal_grasp_pose_,    \* GraspGenerator::ideal_grasp_pose_
  switches,             \* verbose_, show_prefiltered_grasps_, debug_top_grasps_, show_grasp_overhang_
  visual_tools_,        \* number of markers and animations handed to visual_tools_ so far
  earlier_call,         \* a finished generation call the call in progress is compared with
  normalization,        \* min_grasp_distance_, max_grasp_distance_, min_translations_, max_translations_
  other_call,           \* a second generation call on the same generator, not running at the moment
  grasp_candidate,      \* the GraspCandidate handed to getGraspWaypoints
  grasp_waypoints       \* the EigenSTL::vector_Isometry3d handed to getGraspWaypoints

vars == <<ih_in, ih_out, gih_in, gih_out, grasp_score_weights_, sub_scores, grasp_quality,
          grasp_data, call, pc, grasp_poses, locals, grasp_candidates, grasp_id, width_calls, result,
          ideal_grasp_pose_, switches, visual_tools_, earlier_call, normalization, other_call,
          grasp_candidate, grasp_waypoints>>

genVars == <<grasp_candidates, grasp_id, width_calls, result, ideal_grasp_pose_>>

axisVars == <<grasp_data, call, pc, grasp_poses, locals, genVars>>

scoreVars == <<grasp_score_weights_, sub_scores, grasp_quality>>

isectVars == <<ih_in, ih_out>>
gisectVars == <<gih_in, gih_out>>

vizVars == <<switches, visual_tools_, earlier_call>>

concVars == <<normalization, other_call>>

wayVars == <<grasp_candidate, grasp_waypoints>>

NoCall == [none |-> TRUE]

\* result slot of a call: not yet returned, or returned with value b
NoRet == [done |-> FALSE, ret |-> FALSE]

Ret(b) == [done |-> TRUE, ret |-> b]

(***************************************************************************)
(* Arithmetic helpers                                                      *)
(***************************************************************************)
Abs(x) == IF x < 0 THEN -x ELSE x

Sgn(x) == IF x < 0 THEN -1 ELSE IF x > 0 THEN 1 ELSE 0

\* ceil of the rational n/d, d > 0 (\div rounds toward -infinity)
CeilDiv(n, d) == -((-n) \div d)

\* the double n/d
Rat(n, d) == [n |-> n, d |-> d]

\* the comparisons t >= 0 and t <= 1 on doubles: false on NaN; on +/-inf they
\* cannot both hold
RatGe0(t) == IF t.d = 0 THEN t.n > 0 ELSE t.n * Sgn(t.d) >= 0

RatLe1(t) == IF t.d = 0 THEN t.n < 0 ELSE t.n * Sgn(t.d) <= Abs(t.d)

(***************************************************************************)
(* Geometry primitives                                                     *)
(***************************************************************************)
\* Eigen::Vector3d as a 3-tuple, Eigen 3x3 rotation as a tuple of 3 rows
VAdd(p, q) == <<p[1] + q[1], p[2] + q[2], p[3] + q[3]>>

VSub(p, q) == <<p[1] - q[1], p[2] - q[2], p[3] - q[3]>>

VScale(k, p) == <<k * p[1], k * p[2], k * p[3]>>

Dot(p, q) == p[1] * q[1] + p[2] * q[2] + p[3] * q[3]

MatVec(R, p) == <<Dot(R[1], p), Dot(R[2], p), Dot(R[3], p)>>

Transpose(R) ==
  << <<R[1][1], R[2][1], R[3][1]>>,
     <<R[1][2], R[2][2], R[3][2]>>,
     <<R[1][3], R[2][3], R[3][3]>> >>

Identity3 == << <<1, 0, 0>>, <<0, 1, 0>>, <<0, 0, 1>> >>

\* Eigen::Isometry3d: rotation R (orthonormal, entries in {-1,0,1} for the
\* poses enumerated here) and translation p
Isometry(R, p) == [R |-> R, p |-> p]

\* Isometry3d::inverse() * point
InverseApply(pose, pt) == MatVec(Transpose(pose.R), VSub(pt, pose.p))

\* scale of the unit direction vectors (a unit vector has length DirScale)
DirScale == 100

\* intersectionHelper with the upper bounds exclusive (t < 1, u < a/2, v < b/2)
intersectionHelper_exclusive(t, u1, v1, u2, v2, a, b) ==
  IF RatGe0(t) /\ RatLe1(t) /\ t.n # t.d
  THEN LET d == Abs(t.d)
           n == t.n * Sgn(t.d)
           u2d == 2 * (u1 * d + n * (u2 - u1))
           v2d == 2 * (v1 * d + n * (v2 - v1))
       IN  u2d >= -(a * d) /\ u2d < a * d /\ v2d >= -(b * d) /\ v2d < b * d
  ELSE FALSE

\* bool intersectionHelper(t, u1, v1, u2, v2, a, b, u, v); u and v are
\* compared after multiplication by 2 * |t.d| > 0
intersectionHelper(t, u1, v1, u2, v2, a, b) ==
  IF RatGe0(t) /\ RatLe1(t)
  THEN LET d == Abs(t.d)
           n == t.n * Sgn(t.d)
           u2d == 2 * (u1 * d + n * (u2 - u1))
           v2d == 2 * (v1 * d + n * (v2 - v1))
       IN  u2d >= -(a * d) /\ u2d <= a * d /\ v2d >= -(b * d) /\ v2d <= b * d
  ELSE FALSE

\* cosine table: DirScale * cos(deg), deg a multiple of 15, rounded
CosQ(d) ==
  CASE d = 0 -> 100 [] d = 15 -> 97 [] d = 30 -> 87 [] d = 45 -> 71
    [] d = 60 -> 50 [] d = 75 -> 26 [] d = 90 -> 0

CosT(deg) ==
  LET d == deg % 360
  IN  IF d <= 90 THEN CosQ(d)
      ELSE IF d <= 180 THEN -CosQ(180 - d)
      ELSE IF d <= 270 THEN -CosQ(d - 180)
      ELSE CosQ(360 - d)

SinT(deg) == CosT(deg + 270)

\* A grasp pose is [R, p, ry, fan, rx, rz, tx, ty, dz, src].  Its rotation is
\*   R * AngleAxis(ry + 90 * fan[1] / fan[2], UnitY) * AngleAxis(rx, UnitX) * AngleAxis(rz, UnitZ)
\* with R of entries in {-1,0,1} and ry, rx, rz in degrees; its translation is p
\* moved by (tx, ty, dz) in the pose's own frame (dz a quotient); src names the
\* statement of the code that pushed the pose.  The Z axis of a pose with
\* fan[1] = 0, scaled by DirScale (a rotation about Z leaves it alone):
ZAxis(pose) ==
  MatVec(pose.R, << (SinT(pose.ry) * CosT(pose.rx)) \div DirScale,
                    -SinT(pose.rx),
                    (CosT(pose.ry) * CosT(pose.rx)) \div DirScale >>)

Pose(R, p, ry) ==
  [R |-> R, p |-> p, ry |-> ry, fan |-> <<0, 1>>, rx |-> 0, rz |-> 0, tx |-> 0, ty |-> 0,
   dz |-> Rat(0, 1), src |-> "arg"]

\* pose.translation() of a pose with tx = ty = 0 whose dz is a whole number of
\* length units
Translation(pose) ==
  LET z == ZAxis(pose)
      k == pose.dz.n \div pose.dz.d
  IN  IF pose.dz.n = 0 THEN pose.p
      ELSE VAdd(pose.p, << (z[1] * k) \div DirScale, (z[2] * k) \div DirScale, (z[3] * k) \div DirScale >>)

MatMul(A, B) ==
  LET Bt == Transpose(B)
  IN  << <<Dot(A[1], Bt[1]), Dot(A[1], Bt[2]), Dot(A[1], Bt[3])>>,
         <<Dot(A[2], Bt[1]), Dot(A[2], Bt[2]), Dot(A[2], Bt[3])>>,
         <<Dot(A[3], Bt[1]), Dot(A[3], Bt[2]), Dot(A[3], Bt[3])>> >>

\* Eigen::AngleAxisd(deg, UnitX / UnitY / UnitZ) for deg a multiple of 90
C90(deg) == CosT(deg) \div DirScale

S90(deg) == SinT(deg) \div DirScale

RotX(deg) == << <<1, 0, 0>>, <<0, C90(deg), -S90(deg)>>, <<0, S90(deg), C90(deg)>> >>

RotY(deg) == << <<C90(deg), 0, S90(deg)>>, <<0, 1, 0>>, <<-S90(deg), 0, C90(deg)>> >>

RotZ(deg) == << <<C90(deg), -S90(deg), 0>>, <<S90(deg), C90(deg), 0>>, <<0, 0, 1>> >>

\* graspIntersectionHelper with the last face (x = -depth/2) left out
graspIntersectionHelper_fivefaces(cuboid_pose, depth, width, height, grasp_pose, grasp_max_depth) ==
  LET a0 == Translation(grasp_pose)
      z == ZAxis(grasp_pose)
      b0 == VAdd(a0, << (z[1] * grasp_max_depth) \div DirScale,
                        (z[2] * grasp_max_depth) \div DirScale,
                        (z[3] * grasp_max_depth) \div DirScale >>)
      point_a == InverseApply(cuboid_pose, a0)
      point_b == InverseApply(cuboid_pose, b0)
      T(size, sign, i) == Rat(sign * size - 2 * point_a[i], 2 * (point_b[i] - point_a[i]))
  IN  \/ intersectionHelper(T(height, 1, 3), point_a[1], point_a[2], point_b[1], point_b[2], depth, width)
      \/ intersectionHelper(T(height, -1, 3), point_a[1], point_a[2], point_b[1], point_b[2], depth, width)
      \/ intersectionHelper(T(width, 1, 2), point_a[1], point_a[3], point_b[1], point_b[3], depth, height)
      \/ intersectionHelper(T(width, -1, 2), point_a[1], point_a[3], point_b[1], point_b[3], depth, height)
      \/ intersectionHelper(T(depth, 1, 1), point_a[2], point_a[3], point_b[2], point_b[3], width, height)

\* bool graspIntersectionHelper(cuboid_pose, depth, width, height, grasp_pose,
\* grasp_data): the six faces in the order of the code, first hit returns
graspIntersectionHelper(cuboid_pose, depth, width, height, grasp_pose, grasp_max_depth) ==
  LET a0 == Translation(grasp_pose)
      z == ZAxis(grasp_pose)
      b0 == VAdd(a0, << (z[1] * grasp_max_depth) \div DirScale,
                        (z[2] * grasp_max_depth) \div DirScale,
                        (z[3] * grasp_max_depth) \div DirScale >>)
      point_a == InverseApply(cuboid_pose, a0)
      point_b == InverseApply(cuboid_pose, b0)
      \* t = (plane - point_a[i]) / (point_b[i] - point_a[i]), plane = +/- size/2
      T(size, sign, i) == Rat(sign * size - 2 * point_a[i], 2 * (point_b[i] - point_a[i]))
  IN  IF intersectionHelper(T(height, 1, 3), point_a[1], point_a[2], point_b[1], point_b[2], depth, width)
      THEN TRUE
      ELSE IF intersectionHelper(T(height, -1, 3), point_a[1], point_a[2], point_b[1], point_b[2], depth, width)
      THEN TRUE
      ELSE IF intersectionHelper(T(width, 1, 2), point_a[1], point_a[3], point_b[1], point_b[3], depth, height)
      THEN TRUE
      ELSE IF intersectionHelper(T(width, -1, 2), point_a[1], point_a[3], point_b[1], point_b[3], depth, height)
      THEN TRUE
      ELSE IF intersectionHelper(T(depth, 1, 1), point_a[2], point_a[3], point_b[2], point_b[3], width, height)
      THEN TRUE
      ELSE IF intersectionHelper(T(depth, -1, 1), point_a[2], point_a[3], point_b[2], point_b[3], width, height)
      THEN TRUE
      ELSE FALSE

(***************************************************************************)
(* Grasp scoring                                                           *)
(***************************************************************************)
\* a sub-score s stands for the double s / ScoreScale
ScoreScale == 2

\* largest weight drawn for a scoring term
MaxWeight == 2

WeightNames ==
  {"orientation_x", "orientation_y", "orientation_z", "translation_x", "translation_y",
   "translation_z", "width", "depth", "overhang"}

\* GraspScoreWeights(): every weight 1
DefaultWeights == [w \in WeightNames |-> 1]

\* slot of new_grasp.grasp_quality: not scored yet, or the score n/d
NoScore == [done |-> FALSE, val |-> Rat(0, 1)]

Scored(q) == [done |-> TRUE, val |-> q]

RECURSIVE SumSeq(_)
SumSeq(q) == IF q = <<>> THEN 0 ELSE Head(q) + SumSeq(Tail(q))

\* total_score = sum(weights[i] * scores[i]); total_score /= sum(weights[i])
WeightedAverage(weights, scores) ==
  Rat(SumSeq([i \in 1..Len(weights) |-> weights[i] * scores[i]]), ScoreScale * SumSeq(weights))

\* double scoreSuctionGrasp(grasp_pose, grasp_data, cuboid_pose, object_size)
scoreSuctionGrasp(w, orientation_scores, translation_scores, overhang_score) ==
  LET weights == <<w.orientation_x, w.orientation_y, w.orientation_z,
                   w.translation_x, w.translation_y, w.translation_z,
                   w.overhang, w.overhang>>
      scores == <<orientation_scores[1], orientation_scores[2], orientation_scores[3],
                  translation_scores[1], translation_scores[2], translation_scores[3],
                  overhang_score[1], overhang_score[2]>>
  IN  WeightedAverage(weights, scores)

\* scoreFingerGrasp with the translation sub-scores used as they come
scoreFingerGrasp_notinverted(w, width_score, orientation_scores, distance_score, translation_scores) ==
  WeightedAverage(<<w.width, w.orientation_x, w.orientation_y, w.orientation_z, w.depth,
                    w.translation_x, w.translation_y, w.translation_z>>,
                  <<width_score, orientation_scores[1], orientation_scores[2], orientation_scores[3],
                    distance_score, translation_scores[1], translation_scores[2], translation_scores[3]>>)

\* double scoreFingerGrasp(grasp_pose, grasp_data, object_pose, percent_open);
\* translation_scores *= -1.0; translation_scores += (1, 1, 1)
scoreFingerGrasp(w, width_score, orientation_scores, distance_score, translation_scores) ==
  LET inverted == [j \in 1..3 |-> (-1) * translation_scores[j] + ScoreScale]
      weights == <<w.width, w.orientation_x, w.orientation_y, w.orientation_z, w.depth,
                   w.translation_x, w.translation_y, w.translation_z>>
      scores == <<width_score, orientation_scores[1], orientation_scores[2], orientation_scores[3],
                  distance_score, inverted[1], inverted[2], inverted[3]>>
  IN  WeightedAverage(weights, scores)

(***************************************************************************)
(* generateCuboidAxisGrasps: pose enumeration for one axis                 *)
(***************************************************************************)
\* double offset = 0.001 (in 0.1 mm)
offset == 10

\* capacity of the pose vector: a push_back beyond it throws std::bad_alloc
MaxPoses == 150

\* The conversion of a negative, infinite or NaN double to std::size_t is
\* undefined: builds wrap it to a value near 2^64 ("wrap") or give 0
\* ("saturate").  SizeHuge stands for every wrapped value.
UBOutcomes == {"wrap", "saturate"}

SizeHuge == 2 * MaxPoses * MaxPoses

ToSizeTUB(ub) == IF ub = "wrap" THEN SizeHuge ELSE 0

\* the locals of generateCuboidAxisGrasps before its first stage
InitLocals ==
  [num_corner_grasps |-> 0, num_grasps_along_a |-> 0, num_grasps_along_b |-> 0,
   delta_a |-> 0, delta_b |-> 0, num_grasps |-> 0, max_iterations |-> 0, i |-> 0, dir |-> 1,
   iterations |-> 0, grasp_pose |-> Pose(Identity3, <<0, 0, 0>>, 0),
   dir_pushes |-> 0, warned |-> FALSE, num_grasps_added |-> 0, stage |-> "none", v |-> 0]

\* floor(n / d) for d # 0
FloorRat(n, d) == IF d > 0 THEN n \div d ELSE (-n) \div (-d)

\* n / d for the inputs on which the quotient is an integer; truncated otherwise
Quot(n, d) == IF n >= 0 THEN n \div d ELSE -((-n) \div d)

Unit(i) == [j \in 1..3 |-> IF j = i THEN 1 ELSE 0]

\* length_along_a / b / c and object_width for the axis
AxisLengths(axis, depth, width, height) ==
  CASE axis = "X_AXIS" -> [a |-> width, b |-> height, c |-> depth]
    [] axis = "Y_AXIS" -> [a |-> depth, b |-> height, c |-> width]
    [] OTHER -> [a |-> depth, b |-> width, c |-> height]

\* a_dir, b_dir, c_dir
AxisDirs(cuboid_pose, axis) ==
  CASE axis = "X_AXIS" -> [a |-> MatVec(cuboid_pose.R, Unit(2)), b |-> MatVec(cuboid_pose.R, Unit(3)),
                           c |-> MatVec(cuboid_pose.R, Unit(1))]
    [] axis = "Y_AXIS" -> [a |-> MatVec(cuboid_pose.R, Unit(1)), b |-> MatVec(cuboid_pose.R, Unit(3)),
                           c |-> MatVec(cuboid_pose.R, Unit(2))]
    [] OTHER -> [a |-> MatVec(cuboid_pose.R, Unit(1)), b |-> MatVec(cuboid_pose.R, Unit(2)),
                 c |-> MatVec(cuboid_pose.R, Unit(3))]

\* rotation_angles = {alpha_x, alpha_y, alpha_z}, in degrees
RotationAngles(axis) ==
  CASE axis = "X_AXIS" -> <<-90, 0, -90>>
    [] axis = "Y_AXIS" -> <<0, 90, 180>>
    [] OTHER -> <<90, 90, 0>>

\* pose * AngleAxis(r[0], X) * AngleAxis(r[1], Y) * AngleAxis(r[2], Z) * AngleAxis(alignment, Y)
AlignedRotation(cuboid_pose, rotation_angles, alignment_rotation) ==
  MatMul(cuboid_pose.R,
    MatMul(RotX(rotation_angles[1]),
      MatMul(RotY(rotation_angles[2]),
        MatMul(RotZ(rotation_angles[3]), RotY(alignment_rotation)))))

\* num_grasps_along_x = floor((length - gripper_finger_width_) / grasp_resolution_) + 1,
\* converted to std::size_t (lines 209-210)
NumGraspsAlong(length, finger_width, resolution, ub) ==
  IF resolution = 0 THEN ToSizeTUB(ub)
  ELSE LET v == FloorRat(length - finger_width, resolution) + 1
       IN  IF v < 0 THEN ToSizeTUB(ub) ELSE v

\* lines 215-224: if (num <= 0) num = 3
NumOrThree(num) == IF num <= 0 THEN 3 ELSE num

\* lines 226-234
DeltaAlong(length, finger_width, num) ==
  IF num = 1 THEN 0 ELSE Quot(length - finger_width, num - 1)

\* addFaceGraspsHelper: the poses it pushes, in order
addFaceGraspsHelper(pose, rotation_angles, translation, delta, alignment_rotation, num_grasps, src) ==
  [k \in 1..num_grasps |->
     [Pose(AlignedRotation(pose, rotation_angles, alignment_rotation),
           VAdd(VAdd(pose.p, translation), VScale(k, delta)), 0) EXCEPT !.src = src]]

\* lines 243-271: the four calls of addFaceGraspsHelper, each with
\* num_grasps_along_b
FaceGrasps(cuboid_pose, axis, len, dir, finger_width, num_a, num_b, delta_a, delta_b) ==
  LET ra == RotationAngles(axis)
      a_translation ==
        VSub(VSub(VScale(-1, VScale((len.a + offset) \div 2, dir.a)),
                  VScale((len.b - finger_width) \div 2, dir.b)),
             VScale(delta_b, dir.b))
      b_translation ==
        VSub(VSub(VScale(-1, VScale((len.a - finger_width) \div 2, dir.a)),
                  VScale(delta_a, dir.a)),
             VScale((len.b + offset) \div 2, dir.b))
  IN  addFaceGraspsHelper(cuboid_pose, ra, a_translation, VScale(delta_b, dir.b), 0, num_b, "face-a")
      \o addFaceGraspsHelper(cuboid_pose, ra, VScale(-1, b_translation), VScale(-delta_a, dir.a), -90, num_b, "face+b")
      \o addFaceGraspsHelper(cuboid_pose, ra, VScale(-1, a_translation), VScale(-delta_b, dir.b), 180, num_b, "face+a")
      \o addFaceGraspsHelper(cuboid_pose, ra, b_translation, VScale(delta_a, dir.a), 90, num_b, "face-b")

\* lines 200-271 of generateCuboidAxisGrasps
AddFaceGrasps ==
  /\ pc = "face"
  /\ \E ub \in UBOutcomes :
       LET len == AxisLengths(call.axis, call.depth, call.width, call.height)
           dir == AxisDirs(call.cuboid_pose, call.axis)
           fw == grasp_data.gripper_finger_width_
           num_a == NumOrThree(NumGraspsAlong(len.a, fw, grasp_data.grasp_resolution_, ub))
           num_b == NumOrThree(NumGraspsAlong(len.b, fw, grasp_data.grasp_resolution_, ub))
           delta_a == DeltaAlong(len.a, fw, num_a)
           delta_b == DeltaAlong(len.b, fw, num_b)
       IN  /\ locals' = [locals EXCEPT !.num_grasps_along_a = num_a, !.num_grasps_along_b = num_b,
                                       !.delta_a = delta_a, !.delta_b = delta_b]
           /\ IF ~call.config.enable_face_grasps_
              THEN pc' = "variable_angle" /\ UNCHANGED grasp_poses
              ELSE IF Len(grasp_poses) + 4 * num_b > MaxPoses
              THEN pc' = "bad_alloc" /\ UNCHANGED grasp_poses
              ELSE /\ pc' = "variable_angle"
                   /\ grasp_poses' = grasp_poses \o
                        FaceGrasps(call.cuboid_pose, call.axis, len, dir, fw, num_a, num_b, delta_a, delta_b)
  /\ UNCHANGED <<wayVars, concVars, vizVars, grasp_data, call, isectVars, gisectVars, scoreVars, genVars>>

\* max_iterations with one more turn allowed
MaxIterations_plusone(angle_resolution, ub) ==
  IF angle_resolution <= 0 THEN ToSizeTUB(ub) ELSE 180 \div angle_resolution + 2

\* std::size_t max_iterations = M_PI / angle_res + 1 (line 285), angle_res =
\* angle_resolution_ * M_PI / 180, so the double is 180 / angle_resolution_ + 1;
\* the conversion truncates, and is undefined for inf and for values <= -1
MaxIterations(angle_resolution, ub) ==
  IF angle_resolution = 0 THEN ToSizeTUB(ub)
  ELSE IF angle_resolution < 0
  THEN IF -angle_resolution <= 90 THEN ToSizeTUB(ub) ELSE 0
  ELSE 180 \div angle_resolution + 1

\* grasp_pose * AngleAxis(angle, UnitY) for a pose with rx = rz = 0
RotateY(pose, angle) == [pose EXCEPT !.ry = (pose.ry + angle) % 360]

\* lines 273-286: enter the loop over the base poses i = num_corner_grasps ..
\* num_grasps - 1 (1-based here) and the first while loop of the first one
BeginVariableAngle ==
  /\ pc = "variable_angle"
  /\ \E ub \in UBOutcomes :
       LET first == locals.num_corner_grasps + 1
       IN  IF call.config.enable_variable_angle_grasps_ /\ first <= Len(grasp_poses)
           THEN /\ pc' = "sweep"
                /\ locals' = [locals EXCEPT
                     !.num_grasps = Len(grasp_poses),
                     !.max_iterations = MaxIterations(grasp_data.angle_resolution_, ub),
                     !.i = first, !.dir = 1, !.iterations = 0, !.dir_pushes = 0, !.warned = FALSE,
                     !.grasp_pose = RotateY(grasp_poses[first], grasp_data.angle_resolution_)]
           ELSE /\ pc' = "edge"
                /\ locals' = [locals EXCEPT !.num_grasps = Len(grasp_poses)]
  /\ UNCHANGED <<wayVars, concVars, vizVars, grasp_data, call, grasp_poses, isectVars, gisectVars, scoreVars, genVars>>

\* the loop condition negated
SweepIntersects_negated ==
  ~graspIntersectionHelper(call.cuboid_pose, call.depth, call.width, call.height,
                           locals.grasp_pose, grasp_data.grasp_max_depth_)

\* lines 287 and 303: the condition of the two while loops
SweepIntersects ==
  graspIntersectionHelper(call.cuboid_pose, call.depth, call.width, call.height,
                          locals.grasp_pose, grasp_data.grasp_max_depth_)

\* lines 287-299 and 303-315: one turn of a while loop whose condition holds
SweepIterate ==
  /\ pc = "sweep"
  /\ SweepIntersects
  /\ IF Len(grasp_poses) >= MaxPoses
     THEN pc' = "bad_alloc" /\ UNCHANGED <<grasp_poses, locals>>
     ELSE /\ grasp_poses' = Append(grasp_poses, [locals.grasp_pose EXCEPT !.src = "variable_angle"])
          /\ locals' = [locals EXCEPT
               !.grasp_pose = RotateY(locals.grasp_pose, locals.dir * grasp_data.angle_resolution_),
               !.iterations = locals.iterations + 1,
               !.dir_pushes = locals.dir_pushes + 1,
               !.warned = locals.iterations + 1 > locals.max_iterations]
          /\ pc' = IF locals.iterations + 1 > locals.max_iterations THEN "sweep_exit" ELSE "sweep"
  /\ UNCHANGED <<wayVars, concVars, vizVars, grasp_data, call, isectVars, gisectVars, scoreVars, genVars>>

\* the while condition is false: the loop is left
SweepStop ==
  /\ pc = "sweep"
  /\ ~SweepIntersects
  /\ pc' = "sweep_exit"
  /\ UNCHANGED <<wayVars, concVars, vizVars, grasp_data, call, grasp_poses, locals, isectVars, gisectVars, scoreVars, genVars>>

\* lines 301-302 (the second while loop of the base pose starts) and lines
\* 279-286 (the next base pose, or the end of the for loop)
SweepNextDirection ==
  /\ pc = "sweep_exit"
  /\ \E ub \in UBOutcomes :
       IF locals.dir = 1
       THEN /\ pc' = "sweep"
            /\ locals' = [locals EXCEPT
                 !.dir = -1, !.iterations = 0, !.dir_pushes = 0, !.warned = FALSE,
                 !.grasp_pose = RotateY(grasp_poses[locals.i], -grasp_data.angle_resolution_)]
       ELSE IF locals.i + 1 <= locals.num_grasps
       THEN /\ pc' = "sweep"
            /\ locals' = [locals EXCEPT
                 !.i = locals.i + 1, !.dir = 1, !.iterations = 0, !.dir_pushes = 0, !.warned = FALSE,
                 !.max_iterations = MaxIterations(grasp_data.angle_resolution_, ub),
                 !.grasp_pose = RotateY(grasp_poses[locals.i + 1], grasp_data.angle_resolution_)]
       ELSE /\ pc' = "edge"
            /\ locals' = [locals EXCEPT !.i = locals.i + 1]
  /\ UNCHANGED <<wayVars, concVars, vizVars, grasp_data, call, grasp_poses, isectVars, gisectVars, scoreVars, genVars>>

\* std::size_t num_radial_grasps = ceil((M_PI / 2.0) / angle_res) (line 170): the
\* double is 90 / angle_resolution_; its ceil is converted, undefined for inf and
\* for values <= -1
NumRadialGrasps(angle_resolution, ub) ==
  IF angle_resolution = 0 THEN ToSizeTUB(ub)
  ELSE IF angle_resolution < 0
  THEN IF -angle_resolution <= 90 THEN ToSizeTUB(ub) ELSE 0
  ELSE CeilDiv(90, angle_resolution)

\* addCornerGraspsHelper pushing the pose at the corner before the fan
addCornerGraspsHelper_withcorner(pose, rotation_angles, translation, corner_rotation, num_radial_grasps, src) ==
  [i \in 1..(num_radial_grasps + 1) |->
     [Pose(AlignedRotation(pose, rotation_angles, corner_rotation), VAdd(pose.p, translation), 0)
        EXCEPT !.fan = <<i - 1, num_radial_grasps + 1>>, !.src = src]]

\* addCornerGraspsHelper: the poses it pushes; pose i of the fan is turned by
\* i * delta_angle, delta_angle = (M_PI / 2) / (num_radial_grasps + 1)
addCornerGraspsHelper(pose, rotation_angles, translation, corner_rotation, num_radial_grasps, src) ==
  [i \in 1..num_radial_grasps |->
     [Pose(AlignedRotation(pose, rotation_angles, corner_rotation), VAdd(pose.p, translation), 0)
        EXCEPT !.fan = <<i, num_radial_grasps + 1>>, !.src = src]]

\* lines 173-197: the four calls of addCornerGraspsHelper
CornerGrasps(cuboid_pose, axis, len, dir, num_radial_grasps) ==
  LET ra == RotationAngles(axis)
      corner_translation_a == VScale((len.a + offset) \div 2, dir.a)
      corner_translation_b == VScale((len.b + offset) \div 2, dir.b)
  IN  addCornerGraspsHelper(cuboid_pose, ra,
        VSub(VScale(-1, corner_translation_a), corner_translation_b), 0, num_radial_grasps, "corner-a-b")
      \o addCornerGraspsHelper(cuboid_pose, ra,
           VAdd(VScale(-1, corner_translation_a), corner_translation_b), -90, num_radial_grasps, "corner-a+b")
      \o addCornerGraspsHelper(cuboid_pose, ra,
           VAdd(corner_translation_a, corner_translation_b), 180, num_radial_grasps, "corner+a+b")
      \o addCornerGraspsHelper(cuboid_pose, ra,
           VSub(corner_translation_a, corner_translation_b), 90, num_radial_grasps, "corner+a-b")

\* lines 104-198 of generateCuboidAxisGrasps: a fresh pose list, the corner stage
AddCornerGrasps ==
  /\ pc = "corner"
  /\ \E ub \in UBOutcomes :
       LET len == AxisLengths(call.axis, call.depth, call.width, call.height)
           dir == AxisDirs(call.cuboid_pose, call.axis)
           n0 == NumRadialGrasps(grasp_data.angle_resolution_, ub)
           num_radial_grasps == IF n0 <= 0 THEN 1 ELSE n0
       IN  IF ~call.config.enable_corner_grasps_
           THEN /\ pc' = "face"
                /\ grasp_poses' = <<>>
                /\ locals' = [InitLocals EXCEPT !.num_corner_grasps = 0]
           ELSE IF 4 * num_radial_grasps > MaxPoses
           THEN /\ pc' = "bad_alloc"
                /\ grasp_poses' = <<>>
                /\ locals' = InitLocals
           ELSE /\ pc' = "face"
                /\ grasp_poses' = CornerGrasps(call.cuboid_pose, call.axis, len, dir, num_radial_grasps)
                /\ locals' = [InitLocals EXCEPT !.num_corner_grasps = 4 * num_radial_grasps]
  /\ UNCHANGED <<wayVars, concVars, vizVars, grasp_data, call, isectVars, gisectVars, scoreVars, genVars>>

\* addEdgeGraspsHelper: the poses it pushes
addEdgeGraspsHelper(pose, rotation_angles, translation, delta, alignment_rotation, num_grasps, corner_rotation, src) ==
  [k \in 1..num_grasps |->
     [Pose(AlignedRotation(pose, rotation_angles, alignment_rotation),
           VAdd(VAdd(pose.p, translation), VScale(k, delta)), 0)
        EXCEPT !.rx = corner_rotation % 360, !.src = src]]

\* lines 319-371: the four calls of addEdgeGraspsHelper, each with
\* num_grasps_along_b
EdgeGrasps(cuboid_pose, axis, len, dir, finger_width, num_b, delta_a, delta_b) ==
  LET ra == RotationAngles(axis)
      a_sign == IF axis = "X_AXIS" THEN 1 ELSE -1
      b_sign == IF axis = "Z_AXIS" THEN -1 ELSE 1
      a_rot_sign == IF axis = "Z_AXIS" THEN -1 ELSE 1
      b_rot_sign == IF axis = "X_AXIS" THEN 1 ELSE -1
      a_translation ==
        VSub(VSub(VSub(VScale(-1, VScale((len.a + offset) \div 2, dir.a)),
                       VScale((len.b - finger_width) \div 2, dir.b)),
                  VScale(delta_b, dir.b)),
             VScale(a_sign * ((len.c + offset) \div 2), dir.c))
      b_translation ==
        VSub(VSub(VSub(VScale(-1, VScale((len.a - finger_width) \div 2, dir.a)),
                       VScale(delta_a, dir.a)),
                  VScale((len.b + offset) \div 2, dir.b)),
             VScale(b_sign * ((len.c + offset) \div 2), dir.c))
  IN  addEdgeGraspsHelper(cuboid_pose, ra, a_translation, VScale(delta_b, dir.b), 0, num_b,
                          -45 * a_rot_sign, "edge-a")
      \o addEdgeGraspsHelper(cuboid_pose, ra, VScale(-1, b_translation), VScale(-delta_a, dir.a), -90, num_b,
                             45 * b_rot_sign, "edge+b")
      \o addEdgeGraspsHelper(cuboid_pose, ra, VScale(-1, a_translation), VScale(-delta_b, dir.b), 180, num_b,
                             45 * a_rot_sign, "edge+a")
      \o addEdgeGraspsHelper(cuboid_pose, ra, b_translation, VScale(delta_a, dir.a), 90, num_b,
                             -45 * b_rot_sign, "edge-b")

\* lines 319-371 of generateCuboidAxisGrasps
AddEdgeGrasps ==
  /\ pc = "edge"
  /\ LET len == AxisLengths(call.axis, call.depth, call.width, call.height)
         dir == AxisDirs(call.cuboid_pose, call.axis)
     IN  IF ~call.config.enable_edge_grasps_
         THEN pc' = "depth" /\ UNCHANGED grasp_poses
         ELSE IF Len(grasp_poses) + 4 * locals.num_grasps_along_b > MaxPoses
         THEN pc' = "bad_alloc" /\ UNCHANGED grasp_poses
         ELSE /\ pc' = "depth"
              /\ grasp_poses' = grasp_poses \o
                   EdgeGrasps(call.cuboid_pose, call.axis, len, dir, grasp_data.gripper_finger_width_,
                              locals.num_grasps_along_b, locals.delta_a, locals.delta_b)
  /\ UNCHANGED <<wayVars, concVars, vizVars, grasp_data, call, locals, isectVars, gisectVars, scoreVars, genVars>>

\* std::size_t num_depth_grasps = ceil(finger_depth / grasp_depth_resolution_)
\* (line 374), undefined for inf, NaN and values <= -1
NumDepthGrasps(finger_depth, resolution, ub) ==
  IF resolution = 0 THEN ToSizeTUB(ub)
  ELSE LET n == IF resolution > 0 THEN finger_depth ELSE -finger_depth
           d == Abs(resolution)
           v == CeilDiv(n, d)
       IN  IF v < 0 THEN ToSizeTUB(ub) ELSE v

\* a depth loop that also visits the first pose it pushed
DepthGrasps_rereading(poses, finger_depth, num_depth_grasps) ==
  [m \in 1..((Len(poses) + (IF Len(poses) > 0 THEN 1 ELSE 0)) * num_depth_grasps) |->
     LET i == ((m - 1) \div num_depth_grasps) + 1
         j == ((m - 1) % num_depth_grasps) + 1
     IN  [poses[IF i > Len(poses) THEN 1 ELSE i] EXCEPT !.dz = Rat(j * finger_depth, num_depth_grasps)]]

\* lines 383-392: after the poses present, for each of them in turn its
\* num_depth_grasps replicas, replica j moved j * delta_f along the pose's Z axis
DepthGrasps(poses, finger_depth, num_depth_grasps) ==
  [m \in 1..(Len(poses) * num_depth_grasps) |->
     LET i == ((m - 1) \div num_depth_grasps) + 1
         j == ((m - 1) % num_depth_grasps) + 1
     IN  [poses[i] EXCEPT !.dz = Rat(j * finger_depth, num_depth_grasps)]]

\* lines 372-392 of generateCuboidAxisGrasps
AddDepthGrasps ==
  /\ pc = "depth"
  /\ \E ub \in UBOutcomes :
       LET finger_depth == grasp_data.grasp_max_depth_ - grasp_data.grasp_min_depth_
           n0 == NumDepthGrasps(finger_depth, grasp_data.grasp_depth_resolution_, ub)
           num_depth_grasps == IF n0 <= 0 THEN 1 ELSE n0
       IN  IF Len(grasp_poses) > 0 /\ Len(grasp_poses) * (1 + num_depth_grasps) > MaxPoses
           THEN pc' = "bad_alloc" /\ UNCHANGED grasp_poses
           ELSE /\ pc' = "bidirectional"
                /\ grasp_poses' = grasp_poses \o DepthGrasps(grasp_poses, finger_depth, num_depth_grasps)
  /\ UNCHANGED <<wayVars, concVars, vizVars, grasp_data, call, locals, isectVars, gisectVars, scoreVars, genVars>>

\* lines 394-402: a copy of every pose, turned by M_PI about its Z axis
AddBidirectional ==
  /\ pc = "bidirectional"
  /\ IF 2 * Len(grasp_poses) > MaxPoses
     THEN pc' = "bad_alloc" /\ UNCHANGED <<grasp_poses, locals>>
     ELSE /\ pc' = "minmax"
          /\ grasp_poses' = grasp_poses \o
               [i \in 1..Len(grasp_poses) |-> [grasp_poses[i] EXCEPT !.rz = (grasp_poses[i].rz + 180) % 360]]
          /\ locals' = [locals EXCEPT !.i = 1, !.num_grasps = 2 * Len(grasp_poses)]
  /\ UNCHANGED <<wayVars, concVars, vizVars, grasp_data, call, isectVars, gisectVars, scoreVars, genVars>>

\* std::numeric_limits<double>::max(), ::min() (the smallest positive normal
\* double) and an ordinary number
DblMax == [lim |-> "DBL_MAX", v |-> 0]

DblMin == [lim |-> "DBL_MIN", v |-> 0]

Num(x) == [lim |-> "none", v |-> x]

\* lines 416-433: a member that starts at DBL_MAX and takes every smaller
\* value of the loop ends at the least value, or stays DBL_MAX with no pose
LeastOf(values) ==
  IF values = {} THEN DblMax ELSE Num(CHOOSE x \in values : \A y \in values : x <= y)

\* lines 416-433: a member that starts at DBL_MIN (0 < DBL_MIN < 1 unit) and
\* takes every greater value of the loop ends at the greatest value, or
\* stays DBL_MIN when no value is above it
GreatestOf(values) ==
  IF \A x \in values : x <= 0 THEN DblMin ELSE Num(CHOOSE x \in values : \A y \in values : y <= x)

\* line 418: the distance of a pose from the cuboid centre, kept as its
\* square (squaring keeps the order of distances)
grasp_distance(pose, cuboid_pose) ==
  Dot(VSub(Translation(pose), cuboid_pose.p), VSub(Translation(pose), cuboid_pose.p))

\* lines 404-433: what the four members hold after the stage
MinMax(poses, cuboid_pose) ==
  LET dist == {grasp_distance(poses[i], cuboid_pose) : i \in DOMAIN poses}
      coord(j) == {Translation(poses[i])[j] : i \in DOMAIN poses}
  IN  [min_grasp_distance_ |-> LeastOf(dist), max_grasp_distance_ |-> GreatestOf(dist),
       min_translations_ |-> [j \in 1..3 |-> LeastOf(coord(j))],
       max_translations_ |-> [j \in 1..3 |-> GreatestOf(coord(j))]]

\* lines 404-433 of generateCuboidAxisGrasps: the normalization members are
\* computed from the poses of this pass
ComputeMinMax ==
  /\ pc = "minmax"
  /\ normalization' = MinMax(grasp_poses, call.cuboid_pose)
  /\ pc' = "add"
  /\ UNCHANGED <<wayVars, other_call, vizVars, grasp_data, call, grasp_poses, locals, isectVars, gisectVars,
                 scoreVars, genVars>>

(***************************************************************************)
(* addGrasp and the generation entry points                                *)
(***************************************************************************)
\* the opening percentages addGrasp asks for, in its order (percent_open * 100)
PercentOpen == <<100, 50, 0>>

\* GraspData::setGraspWidth(percent_open, min_finger_width, grasp_posture): the
\* distance between the fingers is the given share of the way from
\* min_finger_width to max_finger_width_, and the call fails when the hand
\* cannot reach that distance.  Distances are compared times 100.
setGraspWidth(gd, percent_open, min_finger_width) ==
  LET distance_btw_fingers == 100 * min_finger_width + (gd.max_finger_width_ - min_finger_width) * percent_open
  IN  /\ 0 <= percent_open /\ percent_open <= 100
      /\ distance_btw_fingers <= 100 * gd.max_finger_width_
      /\ distance_btw_fingers >= 100 * gd.min_finger_width_

GraspCandidate(id, grasp_pose, percent_open) ==
  [id |-> id, grasp_pose |-> grasp_pose, percent_open |-> percent_open]

\* a counter that stays where it is
PostIncrement_none(id) == id

\* static std::size_t grasp_id = 0; ... grasp_id++ (lines 714-716): the
\* counter after one addGrasp call
PostIncrement(id) == id + 1

\* addGrasp going on to the next opening after a failed one
addGrasp_continue(grasp_pose, gd, id, object_width) ==
  LET min_finger_open_on_approach == object_width + 2 * gd.grasp_padding_on_approach_
      ok(k) == setGraspWidth(gd, PercentOpen[k], min_finger_open_on_approach)
      cand(k) == IF ok(k) THEN <<GraspCandidate(id, grasp_pose, PercentOpen[k])>> ELSE <<>>
      asked(k) == [percent_open |-> PercentOpen[k], ok |-> ok(k)]
  IN  IF gd.end_effector_type_ = "FINGER"
      THEN [pushed |-> cand(1) \o cand(2) \o cand(3), asked |-> <<asked(1), asked(2), asked(3)>>,
            ret |-> ok(1) /\ ok(2) /\ ok(3)]
      ELSE IF gd.end_effector_type_ = "SUCTION"
      THEN [pushed |-> <<GraspCandidate(id, grasp_pose, -1)>>, asked |-> <<>>, ret |-> TRUE]
      ELSE [pushed |-> <<>>, asked |-> <<>>, ret |-> FALSE]

\* bool addGrasp(grasp_pose, grasp_data, grasp_candidates, object_pose,
\* object_size, object_width): the candidates it pushes, the setGraspWidth calls
\* it makes and the value it returns
addGrasp(grasp_pose, gd, id, object_width) ==
  LET min_finger_open_on_approach == object_width + 2 * gd.grasp_padding_on_approach_
      ok(k) == setGraspWidth(gd, PercentOpen[k], min_finger_open_on_approach)
      cand(k) == GraspCandidate(id, grasp_pose, PercentOpen[k])
      asked(k) == [percent_open |-> PercentOpen[k], ok |-> ok(k)]
  IN  IF gd.end_effector_type_ = "FINGER"
      THEN IF ~ok(1) THEN [pushed |-> <<>>, asked |-> <<asked(1)>>, ret |-> FALSE]
           ELSE IF ~ok(2) THEN [pushed |-> <<cand(1)>>, asked |-> <<asked(1), asked(2)>>, ret |-> FALSE]
           ELSE IF ~ok(3)
           THEN [pushed |-> <<cand(1), cand(2)>>, asked |-> <<asked(1), asked(2), asked(3)>>, ret |-> FALSE]
           ELSE [pushed |-> <<cand(1), cand(2), cand(3)>>, asked |-> <<asked(1), asked(2), asked(3)>>,
                 ret |-> TRUE]
      ELSE IF gd.end_effector_type_ = "SUCTION"
      THEN [pushed |-> <<GraspCandidate(id, grasp_pose, -1)>>, asked |-> <<>>, ret |-> TRUE]
      ELSE [pushed |-> <<>>, asked |-> <<>>, ret |-> FALSE]

\* object_width of the axis pass (lines 127, 140, 153)
ObjectWidth(axis, depth, width, height) ==
  CASE axis = "X_AXIS" -> depth [] axis = "Y_AXIS" -> width [] OTHER -> height

\* one call of addGrasp for pose number i of the axis pass
LogCalls(asked, axis, i, id) ==
  [k \in 1..Len(asked) |->
     [axis |-> axis, pose |-> i, id |-> id, percent_open |-> asked[k].percent_open, ok |-> asked[k].ok]]

\* number of markers published by a block of n publish calls that runs when
\* flag (one of the visualization settings) is set
Published(flag, n) == IF flag THEN n ELSE 0

\* lines 438-452: one turn of the loop that hands every pose to addGrasp, or its
\* end and the return of generateCuboidAxisGrasps
AddGrasp ==
  /\ pc = "add"
  /\ IF locals.i <= Len(grasp_poses)
     THEN LET r == addGrasp(grasp_poses[locals.i], grasp_data, grasp_id,
                            ObjectWidth(call.axis, call.depth, call.width, call.height))
          IN  /\ grasp_candidates' = grasp_candidates \o r.pushed
              /\ grasp_id' = PostIncrement(grasp_id)
              /\ width_calls' = width_calls \o LogCalls(r.asked, call.axis, locals.i, grasp_id)
              /\ locals' = [locals EXCEPT !.i = locals.i + 1,
                                          !.num_grasps_added = locals.num_grasps_added + (IF r.ret THEN 1 ELSE 0)]
              /\ visual_tools_' = visual_tools_ + Published(switches.verbose_, 1 + Len(r.pushed))
              /\ pc' = "add"
     ELSE /\ pc' = "axis_done"
          /\ UNCHANGED <<grasp_candidates, grasp_id, width_calls, locals, visual_tools_>>
  /\ UNCHANGED <<wayVars, concVars, switches, earlier_call, grasp_data, call, grasp_poses, result, ideal_grasp_pose_, isectVars, gisectVars, scoreVars>>

\* GraspCandidateConfig::disableAllGraspTypes()
disableAllGraspTypes(config) ==
  [config EXCEPT !.enable_corner_grasps_ = FALSE, !.enable_face_grasps_ = FALSE,
                 !.enable_edge_grasps_ = FALSE, !.enable_variable_angle_grasps_ = FALSE]

\* the grasp_candidate_config_copy generateFingerGrasps hands to the pass of an
\* axis along which the object is `length` long
\* a copy that, being restricted, also loses its edge grasps
ConfigCopy_noedge(grasp_candidate_config, length, max_grasp_width) ==
  IF length > max_grasp_width
  THEN [disableAllGraspTypes(grasp_candidate_config) EXCEPT
          !.enable_corner_grasps_ = grasp_candidate_config.enable_corner_grasps_]
  ELSE grasp_candidate_config

ConfigCopy(grasp_candidate_config, length, max_grasp_width) ==
  IF length > max_grasp_width
  THEN [disableAllGraspTypes(grasp_candidate_config) EXCEPT
          !.enable_edge_grasps_ = grasp_candidate_config.enable_edge_grasps_,
          !.enable_corner_grasps_ = grasp_candidate_config.enable_corner_grasps_]
  ELSE grasp_candidate_config

\* the axis passes in the order Z, Y, X
FingerAxes_reversed == <<"Z_AXIS", "Y_AXIS", "X_AXIS">>

\* lines 1159-1199: the axis passes in the order generateFingerGrasps runs them
FingerAxes == <<"X_AXIS", "Y_AXIS", "Z_AXIS">>

AxisEnabled(config, k) ==
  CASE k = 1 -> config.generate_x_axis_grasps_
    [] k = 2 -> config.generate_y_axis_grasps_
    [] OTHER -> config.generate_z_axis_grasps_

\* the generation returns what the animation of the candidates returned
generationReturn_animation(show_prefiltered_grasps_) == ~show_prefiltered_grasps_

\* lines 1143-1149 and 1207-1213: visualizeAnimatedGrasps is called for its
\* markers, its result is dropped and the generation returns true
generationReturn(show_prefiltered_grasps_) == TRUE

\* generateGrasps with a default branch that runs the suction generation
generateGrasps_default_suction(end_effector_type) ==
  IF end_effector_type = "FINGER" THEN "finger" ELSE "suction"

\* generateGrasps (lines 951-964): the function the call is handed to
generateGrasps(end_effector_type) ==
  IF end_effector_type = "FINGER" THEN "finger"
  ELSE IF end_effector_type = "SUCTION" THEN "suction"
  ELSE "return_false"

\* the call of generateGrasps
GenerateGrasps ==
  /\ pc = "generateGrasps"
  /\ LET to == generateGrasps(grasp_data.end_effector_type_)
     IN  IF to = "return_false"
         THEN pc' = "returned" /\ result' = Ret(FALSE) /\ UNCHANGED call
         ELSE pc' = to /\ UNCHANGED result /\ call' = [call EXCEPT !.axis_index = 1]
  /\ UNCHANGED <<wayVars, concVars, vizVars, grasp_data, locals, grasp_poses, grasp_candidates, grasp_id, width_calls,
                 ideal_grasp_pose_, isectVars, gisectVars, scoreVars>>

\* generateFingerGrasps (lines 1152-1214): the next axis pass is started, a
\* disabled axis is passed over, or the function returns true after the last
GenerateFingerGrasps ==
  /\ pc = "finger"
  /\ IF call.axis_index > 3
     THEN /\ pc' = "returned"
          /\ result' = Ret(generationReturn(switches.show_prefiltered_grasps_))
          /\ visual_tools_' = visual_tools_ + Published(switches.show_prefiltered_grasps_, 1)
          /\ UNCHANGED call
     ELSE /\ UNCHANGED <<result, visual_tools_>>
          /\ IF AxisEnabled(call.grasp_candidate_config, call.axis_index)
             THEN /\ pc' = "corner"
                  /\ call' = [call EXCEPT
                       !.axis = FingerAxes[call.axis_index],
                       !.config = ConfigCopy(call.grasp_candidate_config,
                                     ObjectWidth(FingerAxes[call.axis_index], call.depth, call.width, call.height),
                                     grasp_data.max_grasp_width_)]
             ELSE /\ pc' = "finger"
                  /\ call' = [call EXCEPT !.axis_index = call.axis_index + 1]
  /\ UNCHANGED <<wayVars, concVars, switches, earlier_call, grasp_data, locals, grasp_poses, grasp_candidates, grasp_id, width_calls,
                 ideal_grasp_pose_, isectVars, gisectVars, scoreVars>>

\* generateCuboidAxisGrasps has returned into generateFingerGrasps
ReturnFromAxis ==
  /\ pc = "axis_done"
  /\ pc' = "finger"
  /\ call' = [call EXCEPT !.axis_index = call.axis_index + 1]
  /\ UNCHANGED <<wayVars, concVars, vizVars, grasp_data, locals, grasp_poses, genVars, isectVars, gisectVars, scoreVars>>

(***************************************************************************)
(* generateSuctionGrasps                                                   *)
(***************************************************************************)
\* lines 995-1014: the top pose, turned by M_PI about its X axis when its Z
\* axis opposes the ideal Z axis, then by M_PI about its Z axis when its X axis
\* opposes the ideal X axis
\* the re-orientation without its second step (lines 1006-1014)
ReorientTopGrasp_zonly(cuboid_top_pose, ideal_grasp) ==
  LET dot_prodZ == Dot(MatVec(cuboid_top_pose.R, Unit(3)), MatVec(ideal_grasp.R, Unit(3)))
      R1 == IF dot_prodZ < 0 THEN MatMul(cuboid_top_pose.R, RotX(180)) ELSE cuboid_top_pose.R
  IN  Isometry(R1, cuboid_top_pose.p)

ReorientTopGrasp(cuboid_top_pose, ideal_grasp) ==
  LET dot_prodZ == Dot(MatVec(cuboid_top_pose.R, Unit(3)), MatVec(ideal_grasp.R, Unit(3)))
      R1 == IF dot_prodZ < 0 THEN MatMul(cuboid_top_pose.R, RotX(180)) ELSE cuboid_top_pose.R
      dot_prodX == Dot(MatVec(R1, Unit(1)), MatVec(ideal_grasp.R, Unit(1)))
      R2 == IF dot_prodX < 0 THEN MatMul(R1, RotZ(180)) ELSE R1
  IN  Isometry(R2, cuboid_top_pose.p)

\* the angle_resolution_ values (degrees, divisors of 360) for which the sum
\* yaw += yaw_increment, rounded at every step, is still below 2 * M_PI after
\* 360 / angle_resolution_ - 1 additions
YawDrift == {1, 2, 5, 6, 10, 15, 20, 24, 60}

SuctionStages == <<"yaw", "z", "y", "x">>

StageIndex(stage) == CHOOSE k \in 1..4 : SuctionStages[k] = stage

\* xy_min and xy_increment, which the file uses without declaring them
xy_min(gd) == gd.grasp_resolution_

\* a step of half the grasp resolution
xy_increment_half(gd) == gd.grasp_resolution_ \div 2

xy_increment(gd) == gd.grasp_resolution_

\* xy_max taken from the larger of the two ranges
xy_max2_larger(gd, depth, width) ==
  IF depth - gd.active_suction_range_x_ < width - gd.active_suction_range_y_
  THEN width - gd.active_suction_range_y_
  ELSE depth - gd.active_suction_range_x_

\* twice xy_max (lines 1045-1052)
xy_max2(gd, depth, width) ==
  IF depth - gd.active_suction_range_x_ < width - gd.active_suction_range_y_
  THEN depth - gd.active_suction_range_x_
  ELSE width - gd.active_suction_range_y_

\* yaw_min, z_min, xy_min: the first value of the loop variable of a stage
StageMin(stage, gd) ==
  CASE stage = "yaw" -> gd.angle_resolution_
    [] stage = "z" -> gd.grasp_depth_resolution_
    [] OTHER -> xy_min(gd)

StageIncrement(stage, gd) ==
  CASE stage = "yaw" -> gd.angle_resolution_
    [] stage = "z" -> gd.grasp_depth_resolution_
    [] OTHER -> xy_increment(gd)

\* the loop conditions yaw < yaw_max, z <= z_max, y <= xy_max, x <= xy_max
StageContinues(stage, v, gd, depth, width) ==
  CASE stage = "yaw" -> v < 360 \/ (v = 360 /\ gd.angle_resolution_ \in YawDrift)
    [] stage = "z" -> v <= gd.grasp_max_depth_ - gd.grasp_min_depth_
    [] OTHER -> 2 * v <= xy_max2(gd, depth, width)

\* the poses one turn of the inner loop of a stage pushes for the pose q
\* the X and Y stages pushing the pose on the positive side only
StagePoses_positiveonly(stage, q, v) ==
  CASE stage = "yaw" -> << [q EXCEPT !.rz = (q.rz + v) % 360, !.src = "yaw"] >>
    [] stage = "z" -> << [q EXCEPT !.dz = Rat(q.dz.n + v * q.dz.d, q.dz.d), !.src = "z"] >>
    [] stage = "y" -> << [q EXCEPT !.ty = q.ty + v, !.src = "y"] >>
    [] OTHER -> << [q EXCEPT !.tx = q.tx + v, !.src = "x"] >>

StagePoses(stage, q, v) ==
  CASE stage = "yaw" -> << [q EXCEPT !.rz = (q.rz + v) % 360, !.src = "yaw"] >>
    [] stage = "z" -> << [q EXCEPT !.dz = Rat(q.dz.n + v * q.dz.d, q.dz.d), !.src = "z"] >>
    [] stage = "y" -> << [q EXCEPT !.ty = q.ty + v, !.src = "y"], [q EXCEPT !.ty = q.ty - v, !.src = "y"] >>
    [] OTHER -> << [q EXCEPT !.tx = q.tx + v, !.src = "x"], [q EXCEPT !.tx = q.tx - v, !.src = "x"] >>

\* lines 966-1066 of generateSuctionGrasps: the collection is cleared, the
\* centre pose is pushed and the yaw stage set up
\* a collection that keeps what it holds
clear_nothing(candidates) == candidates

\* grasp_candidates.clear() (line 971)
clear(candidates) == <<>>

GenerateSuctionGrasps ==
  /\ pc = "suction"
  /\ LET ideal_grasp == [ideal_grasp_pose_ EXCEPT !.p = call.cuboid_pose.p]
         cuboid_center_top_grasp == ReorientTopGrasp(call.cuboid_pose, ideal_grasp)
         center_grasp_pose ==
           [Pose(cuboid_center_top_grasp.R, cuboid_center_top_grasp.p, 0) EXCEPT
              !.dz = Rat(grasp_data.grasp_min_depth_, 1), !.src = "center"]
     IN  /\ grasp_candidates' = clear(grasp_candidates)
         /\ ideal_grasp_pose_' = ideal_grasp
         /\ grasp_poses' = <<center_grasp_pose>>
         /\ locals' = [InitLocals EXCEPT !.stage = "yaw", !.i = 1, !.num_grasps = 1,
                                         !.v = StageMin("yaw", grasp_data)]
         /\ pc' = "suction_sweep"
         /\ visual_tools_' = visual_tools_ + Published(switches.debug_top_grasps_, 3)
  /\ UNCHANGED <<wayVars, concVars, switches, earlier_call, grasp_data, call, grasp_id, width_calls, result, isectVars, gisectVars, scoreVars>>

\* lines 1067-1117: one turn of the inner loop of the stage in progress
SuctionPush ==
  /\ pc = "suction_sweep"
  /\ locals.i <= locals.num_grasps
  /\ StageContinues(locals.stage, locals.v, grasp_data, call.depth, call.width)
  /\ LET pushed == StagePoses(locals.stage, grasp_poses[locals.i], locals.v)
     IN  IF Len(grasp_poses) + Len(pushed) > MaxPoses
         THEN pc' = "bad_alloc" /\ UNCHANGED <<grasp_poses, locals>>
         ELSE /\ pc' = "suction_sweep"
              /\ grasp_poses' = grasp_poses \o pushed
              /\ locals' = [locals EXCEPT !.v = locals.v + StageIncrement(locals.stage, grasp_data)]
  /\ UNCHANGED <<wayVars, concVars, vizVars, grasp_data, call, genVars, isectVars, gisectVars, scoreVars>>

\* the inner loop of the stage ends for pose i: on to pose i + 1
SuctionNextPose ==
  /\ pc = "suction_sweep"
  /\ locals.i <= locals.num_grasps
  /\ ~StageContinues(locals.stage, locals.v, grasp_data, call.depth, call.width)
  /\ locals' = [locals EXCEPT !.i = locals.i + 1, !.v = StageMin(locals.stage, grasp_data)]
  /\ UNCHANGED <<wayVars, concVars, vizVars, grasp_data, call, pc, grasp_poses, genVars, isectVars, gisectVars, scoreVars>>

\* the outer loop of the stage ends: the next stage starts over the poses now
\* present, or after the X stage the loop over addGrasp (line 1119)
SuctionNextStage ==
  /\ pc = "suction_sweep"
  /\ locals.i > locals.num_grasps
  /\ IF locals.stage = "x"
     THEN /\ pc' = "suction_add"
          /\ locals' = [locals EXCEPT !.i = 1, !.num_grasps = Len(grasp_poses)]
     ELSE /\ pc' = "suction_sweep"
          /\ locals' = [locals EXCEPT
               !.stage = SuctionStages[StageIndex(locals.stage) + 1],
               !.i = 1, !.num_grasps = Len(grasp_poses),
               !.v = StageMin(SuctionStages[StageIndex(locals.stage) + 1], grasp_data)]
  /\ UNCHANGED <<wayVars, concVars, vizVars, grasp_data, call, grasp_poses, genVars, isectVars, gisectVars, scoreVars>>

\* lines 1119-1128: addGrasp for pose i, its result not looked at
SuctionAddGrasp ==
  /\ pc = "suction_add"
  /\ locals.i <= locals.num_grasps
  /\ LET r == addGrasp(grasp_poses[locals.i], grasp_data, grasp_id, 0)
     IN  /\ grasp_candidates' = grasp_candidates \o r.pushed
         /\ grasp_id' = PostIncrement(grasp_id)
         /\ width_calls' = width_calls \o LogCalls(r.asked, "suction", locals.i, grasp_id)
         /\ locals' = [locals EXCEPT !.i = locals.i + 1]
         /\ visual_tools_' = visual_tools_ + Published(switches.verbose_, 1)
                                + Published(switches.show_grasp_overhang_, 1)
                                + Published(switches.debug_top_grasps_, 1)
  /\ UNCHANGED <<wayVars, concVars, switches, earlier_call, grasp_data, call, pc, grasp_poses, result, ideal_grasp_pose_, isectVars, gisectVars, scoreVars>>

\* lines 1129-1149: generateSuctionGrasps returns true
SuctionReturn ==
  /\ pc = "suction_add"
  /\ locals.i > locals.num_grasps
  /\ pc' = "returned"
  /\ result' = Ret(generationReturn(switches.show_prefiltered_grasps_))
  /\ visual_tools_' = visual_tools_ + Published(switches.debug_top_grasps_, 1)
                         + Published(switches.show_prefiltered_grasps_, 1)
  /\ UNCHANGED <<wayVars, concVars, switches, earlier_call, grasp_data, call, grasp_poses, locals, grasp_candidates, grasp_id, width_calls,
                 ideal_grasp_pose_, isectVars, gisectVars, scoreVars>>

(***************************************************************************)
(* Specification SpecIH: intersectionHelper on bounded inputs              *)
(***************************************************************************)
\* bounds of the inputs of intersectionHelper
MaxTNum == 3
MaxTDen == 2
MaxCoord == 2
MaxExtent == 3

IdleIH == ih_in = NoCall /\ ih_out = NoRet

IdleGIH == gih_in = NoCall /\ gih_out = NoRet

\* ideal_grasp_pose_(Eigen::Isometry3d::Identity()) of the constructor
IdentityPose == [R |-> Identity3, p |-> <<0, 0, 0>>]

IdleGen ==
  /\ grasp_candidates = <<>> /\ grasp_id = 0 /\ width_calls = <<>> /\ result = NoRet
  /\ ideal_grasp_pose_ = IdentityPose

IdleAxis ==
  /\ grasp_data = NoCall /\ call = NoCall /\ pc = "idle"
  /\ grasp_poses = <<>> /\ locals = NoCall
  /\ IdleGen

\* rosparam defaults of the visualization settings: nothing is shown
SwitchesOff ==
  [verbose_ |-> FALSE, show_prefiltered_grasps_ |-> FALSE, debug_top_grasps_ |-> FALSE,
   show_grasp_overhang_ |-> FALSE]

IdleViz == switches = SwitchesOff /\ visual_tools_ = 0 /\ earlier_call = NoCall

\* a double member the constructor (lines 61-67) leaves uninitialized
Uninitialized == [lim |-> "uninitialized", v |-> 0]

IdleWay == grasp_candidate = NoCall /\ grasp_waypoints = <<>>

IdleConc ==
  /\ normalization = [min_grasp_distance_ |-> Uninitialized, max_grasp_distance_ |-> Uninitialized,
                      min_translations_ |-> <<Uninitialized, Uninitialized, Uninitialized>>,
                      max_translations_ |-> <<Uninitialized, Uninitialized, Uninitialized>>]
  /\ other_call = NoCall

IdleScore == grasp_score_weights_ = DefaultWeights /\ sub_scores = NoCall /\ grasp_quality = NoScore

InitIH ==
  /\ ih_in \in [t : [n : -1..MaxTNum, d : -1..MaxTDen],
                u1 : -MaxCoord..MaxCoord, v1 : {-1, 0, 1},
                u2 : -MaxCoord..MaxCoord, v2 : {-1, 0, 1},
                a : 1..MaxExtent, b : {-2, 0, 2}]
  /\ ih_out = NoRet
  /\ IdleGIH
  /\ IdleScore
  /\ IdleAxis
  /\ IdleViz
  /\ IdleConc
  /\ IdleWay

CallIntersectionHelper ==
  /\ ih_in # NoCall
  /\ ~ih_out.done
  /\ ih_out' = Ret(intersectionHelper(ih_in.t, ih_in.u1, ih_in.v1, ih_in.u2, ih_in.v2, ih_in.a, ih_in.b))
  /\ UNCHANGED <<wayVars, concVars, vizVars, ih_in, gisectVars, scoreVars, axisVars>>

NextIH == CallIntersectionHelper

SpecIH == InitIH /\ [][NextIH]_vars

\* the plane parameter t = n/d is a number in [0,1] (stated on n*d and d*d)
TInUnit(t) == t.d # 0 /\ 0 <= t.n * t.d /\ t.n * t.d <= t.d * t.d

\* |c1 + t (c2 - c1)| <= ext / 2, multiplied by 2 d^2
CrossingWithin(t, c1, c2, ext) ==
  2 * Abs(c1 * t.d * t.d + t.n * t.d * (c2 - c1)) <= ext * t.d * t.d

\* C9: intersectionHelper returns true iff 0 <= t <= 1 and the crossing point
\* (u1 + t(u2-u1), v1 + t(v2-v1)) has |u| <= a/2 and |v| <= b/2, bounds
\* inclusive; with t outside [0,1] it never reports a hit.
C9_IntersectionIff ==
  ih_out.done =>
    (ih_out.ret <=> /\ TInUnit(ih_in.t)
                    /\ CrossingWithin(ih_in.t, ih_in.u1, ih_in.u2, ih_in.a)
                    /\ CrossingWithin(ih_in.t, ih_in.v1, ih_in.v2, ih_in.b))

\* a hit reported at the end of the segment (t = 1) with u exactly on the bound a/2
C9_Witness ==
  /\ ih_out.done /\ ih_out.ret
  /\ ih_in.t.n = ih_in.t.d
  /\ 2 * ih_in.u2 = ih_in.a

(***************************************************************************)
(* Specification SpecGIH: graspIntersectionHelper on bounded inputs        *)
(***************************************************************************)
\* grid of grasp pose origins: multiples of GridStep up to GridMax steps
GridMax == 3
GridStep == 10

GridCoords == {GridStep * k : k \in -GridMax..GridMax}

\* orientations whose Z axis runs along each of the six axis directions
AxisRotations == {Identity3, RotX(90), RotX(270), RotY(90), RotY(270), RotX(180)}

InitGIH ==
  /\ gih_in \in [cuboid_pose : {Isometry(Identity3, <<0, 0, 0>>), Isometry(RotZ(90), <<10, 0, -10>>)},
                 depth : {40}, width : {20}, height : {60},
                 grasp_pose : {Pose(R, <<x, y, z>>, ry) :
                                 R \in AxisRotations, x \in GridCoords, y \in GridCoords,
                                 z \in GridCoords, ry \in {0, 45}},
                 grasp_max_depth : {0, 20, 50}]
  /\ gih_out = NoRet
  /\ IdleIH
  /\ IdleScore
  /\ IdleAxis
  /\ IdleViz
  /\ IdleConc
  /\ IdleWay

CallGraspIntersectionHelper ==
  /\ gih_in # NoCall
  /\ ~gih_out.done
  /\ gih_out' = Ret(graspIntersectionHelper(gih_in.cuboid_pose, gih_in.depth, gih_in.width,
                                            gih_in.height, gih_in.grasp_pose, gih_in.grasp_max_depth))
  /\ UNCHANGED <<wayVars, concVars, vizVars, gih_in, isectVars, scoreVars, axisVars>>

NextGIH == CallGraspIntersectionHelper

SpecGIH == InitGIH /\ [][NextGIH]_vars

\* the two ends of the segment of the call in gih_in, in the cuboid's frame
SegA == InverseApply(gih_in.cuboid_pose, gih_in.grasp_pose.p)

SegB ==
  LET z == ZAxis(gih_in.grasp_pose)
  IN  InverseApply(gih_in.cuboid_pose,
        VAdd(gih_in.grasp_pose.p, << (z[1] * gih_in.grasp_max_depth) \div DirScale,
                                     (z[2] * gih_in.grasp_max_depth) \div DirScale,
                                     (z[3] * gih_in.grasp_max_depth) \div DirScale >>))

BoxSize == <<gih_in.depth, gih_in.width, gih_in.height>>

\* The segment A-B crosses the face of the box on axis i at sign * size/2:
\* its ends are on different sides of the face's plane (or one end is on it,
\* the segment not running parallel to the plane), and the point where it
\* meets the plane is within the face on the two other axes j and k.
\* sa, sb: twice the signed distance of A and B from the plane.
CrossesFace(A, B, size, i, sign) ==
  LET sa == 2 * A[i] - sign * size[i]
      sb == 2 * B[i] - sign * size[i]
      j == IF i = 1 THEN 2 ELSE 1
      k == IF i = 3 THEN 2 ELSE 3
      wa == Abs(sb)
      wb == Abs(sa)
  IN  /\ sa # sb
      /\ sa * sb <= 0
      /\ 2 * Abs(A[j] * wa + B[j] * wb) <= size[j] * (wa + wb)
      /\ 2 * Abs(A[k] * wa + B[k] * wb) <= size[k] * (wa + wb)

CrossesSomeFace(A, B, size) ==
  \E i \in 1..3 : \E sign \in {-1, 1} : CrossesFace(A, B, size, i, sign)

StrictlyInside(P, size) == \A i \in 1..3 : 2 * Abs(P[i]) < size[i]

\* C10: graspIntersectionHelper returns true exactly when the segment from
\* the grasp pose origin to origin + grasp_max_depth along the pose's Z axis
\* crosses one of the six faces of the cuboid (faces at +/-depth/2,
\* +/-width/2, +/-height/2 in the cuboid's frame); a segment with both ends
\* strictly inside the box gives false.
C10_CrossesIff ==
  gih_out.done =>
    /\ gih_out.ret <=> CrossesSomeFace(SegA, SegB, BoxSize)
    /\ (StrictlyInside(SegA, BoxSize) /\ StrictlyInside(SegB, BoxSize)) => ~gih_out.ret

\* a hit that only the face tested last (x = -depth/2) reports, in a cuboid
\* frame that is rotated and shifted against the world frame
C10_Witness ==
  /\ gih_out.done /\ gih_out.ret
  /\ gih_in.cuboid_pose.R # Identity3
  /\ CrossesFace(SegA, SegB, BoxSize, 1, -1)
  /\ \A i \in 1..3 : \A sign \in {-1, 1} :
       CrossesFace(SegA, SegB, BoxSize, i, sign) => (i = 1 /\ sign = -1)

(***************************************************************************)
(* Specification SpecScore: the score addGrasp gives a candidate, for      *)
(* non-negative weights and sub-scores in [0,1]                            *)
(***************************************************************************)
\* sub-score vectors with each component in [0,1]
UnitScores == {0, ScoreScale \div 2, ScoreScale}

ScoreVectors == {<<0, 0, 0>>, <<ScoreScale, 0, ScoreScale \div 2>>, <<ScoreScale, ScoreScale, ScoreScale>>}

InitScore ==
  /\ grasp_score_weights_ \in [WeightNames -> {0, MaxWeight}]
  /\ \/ sub_scores \in [end_effector_type : {"FINGER"}, width : UnitScores,
                        orientation : ScoreVectors, distance : {0, ScoreScale},
                        translation : ScoreVectors, overhang : {<<0, 0>>}]
     \/ sub_scores \in [end_effector_type : {"SUCTION"}, width : {0},
                        orientation : ScoreVectors, distance : {0},
                        translation : ScoreVectors,
                        overhang : {<<0, 0>>, <<ScoreScale, 0>>, <<ScoreScale, ScoreScale>>}]
  /\ grasp_quality = NoScore
  /\ IdleIH
  /\ IdleGIH
  /\ IdleAxis
  /\ IdleViz
  /\ IdleConc
  /\ IdleWay

\* addGrasp, line 745: new_grasp.grasp_quality = scoreFingerGrasp(...)
ScoreFingerGrasp ==
  /\ sub_scores # NoCall
  /\ sub_scores.end_effector_type = "FINGER"
  /\ ~grasp_quality.done
  /\ grasp_quality' = Scored(scoreFingerGrasp(grasp_score_weights_, sub_scores.width,
                                sub_scores.orientation, sub_scores.distance, sub_scores.translation))
  /\ visual_tools_' = visual_tools_ + Published(switches.verbose_, 1)
  /\ UNCHANGED <<wayVars, concVars, switches, earlier_call, grasp_score_weights_, sub_scores, isectVars, gisectVars, axisVars>>

\* GraspScorer::scoreGraspOverhang (lines 812-815): called with visual_tools_
\* when show_grasp_overhang_ is set, without otherwise; the score is the same
scoreGraspOverhang(overhang_score, with_visual_tools) == overhang_score

\* addGrasp, line 778: new_grasp.grasp_quality = scoreSuctionGrasp(...)
ScoreSuctionGrasp ==
  /\ sub_scores # NoCall
  /\ sub_scores.end_effector_type = "SUCTION"
  /\ ~grasp_quality.done
  /\ grasp_quality' = Scored(scoreSuctionGrasp(grasp_score_weights_, sub_scores.orientation,
                                sub_scores.translation,
                                scoreGraspOverhang(sub_scores.overhang, switches.show_grasp_overhang_)))
  /\ visual_tools_' = visual_tools_ + Published(switches.show_grasp_overhang_, 1)
  /\ UNCHANGED <<wayVars, concVars, switches, earlier_call, grasp_score_weights_, sub_scores, isectVars, gisectVars, axisVars>>

NextScore == ScoreFingerGrasp \/ ScoreSuctionGrasp

SpecScore == InitScore /\ [][NextScore]_vars

\* the double q is a number in [0,1] (NaN and the infinities are not)
InUnitInterval(q) ==
  /\ q.d # 0
  /\ 0 <= q.n * Sgn(q.d)
  /\ q.n * Sgn(q.d) <= Abs(q.d)

\* C1: every candidate emitted by generateFingerGrasps or
\* generateSuctionGrasps has a grasp_quality in [0,1], for any non-negative
\* score weights and any sub-scores in [0,1].
C1_QualityInUnitInterval == grasp_quality.done => InUnitInterval(grasp_quality.val)

\* sum(weight_i * subscore_i) and sum(weight_i) over the 8 terms of a finger
\* candidate, the sub-scores as numbers (s / ScoreScale), times ScoreScale
FingerWeightedSum ==
  LET w == grasp_score_weights_
      s == sub_scores
  IN  w.width * s.width
      + w.orientation_x * s.orientation[1] + w.orientation_y * s.orientation[2]
      + w.orientation_z * s.orientation[3]
      + w.depth * s.distance
      + w.translation_x * (ScoreScale - s.translation[1])
      + w.translation_y * (ScoreScale - s.translation[2])
      + w.translation_z * (ScoreScale - s.translation[3])

FingerWeightSum ==
  LET w == grasp_score_weights_
  IN  w.width + w.orientation_x + w.orientation_y + w.orientation_z + w.depth
      + w.translation_x + w.translation_y + w.translation_z

\* the same for the 8 terms of a suction candidate
SuctionWeightedSum ==
  LET w == grasp_score_weights_
      s == sub_scores
  IN  w.orientation_x * s.orientation[1] + w.orientation_y * s.orientation[2]
      + w.orientation_z * s.orientation[3]
      + w.translation_x * s.translation[1] + w.translation_y * s.translation[2]
      + w.translation_z * s.translation[3]
      + w.overhang * s.overhang[1] + w.overhang * s.overhang[2]

SuctionWeightSum ==
  LET w == grasp_score_weights_
  IN  w.orientation_x + w.orientation_y + w.orientation_z
      + w.translation_x + w.translation_y + w.translation_z + w.overhang + w.overhang

\* the double q is the quotient of the doubles num / ScoreScale and den (0/0
\* and x/0 included: same numerator and same denominator)
IsQuotient(q, num, den) == q.n = num /\ q.d = ScoreScale * den

\* C13: the final score is sum(weight_i * subscore_i) / sum(weight_i) over 8
\* terms: finger candidates width, orientation x/y/z, depth and translation
\* x/y/z with each translation sub-score inverted as 1 - x; suction candidates
\* orientation x/y/z, translation x/y/z and the two overhang components, both
\* under the one overhang weight.
C13_WeightedAverage ==
  grasp_quality.done =>
    IF sub_scores.end_effector_type = "FINGER"
    THEN IsQuotient(grasp_quality.val, FingerWeightedSum, FingerWeightSum)
    ELSE IsQuotient(grasp_quality.val, SuctionWeightedSum, SuctionWeightSum)

\* a finger candidate scored with translation weights and translation
\* sub-scores that are not all zero
C13_Witness ==
  /\ grasp_quality.done
  /\ sub_scores.end_effector_type = "FINGER"
  /\ grasp_score_weights_.translation_x > 0
  /\ grasp_score_weights_.translation_z > 0
  /\ sub_scores.translation = <<ScoreScale, 0, ScoreScale \div 2>>
  /\ grasp_quality.val.d # 0

(***************************************************************************)
(* Specification SpecFace: the face sampling of one axis pass              *)
(***************************************************************************)
\* cuboid sizes, finger widths and resolutions drawn (0.1 mm)
Sizes == {100, 300, 500}

FingerWidths == {100, 400, 800}

Resolutions == {100, 200}

Axes == {"X_AXIS", "Y_AXIS", "Z_AXIS"}

CuboidPoses == {Isometry(Identity3, <<0, 0, 0>>), Isometry(RotZ(90), <<1000, -2000, 500>>)}

FingerProfile(fw, res, angle, max_depth) ==
  [end_effector_type_ |-> "FINGER", gripper_finger_width_ |-> fw, grasp_resolution_ |-> res,
   angle_resolution_ |-> angle, grasp_max_depth_ |-> max_depth, grasp_min_depth_ |-> 100,
   grasp_depth_resolution_ |-> 100, max_grasp_width_ |-> 1000, max_finger_width_ |-> 1200,
   min_finger_width_ |-> 0, grasp_padding_on_approach_ |-> 50,
   active_suction_range_x_ |-> 0, active_suction_range_y_ |-> 0]

FingerData(fw, res) == FingerProfile(fw, res, 90, 200)

Config(corner, face, edge, variable_angle) ==
  [enable_corner_grasps_ |-> corner, enable_face_grasps_ |-> face, enable_edge_grasps_ |-> edge,
   enable_variable_angle_grasps_ |-> variable_angle]

InitFace ==
  /\ grasp_data \in {FingerData(fw, res) : fw \in FingerWidths, res \in Resolutions}
  /\ call \in [cuboid_pose : CuboidPoses, depth : Sizes, width : Sizes, height : Sizes, axis : Axes,
               config : {Config(FALSE, face, FALSE, FALSE) : face \in BOOLEAN}]
  /\ pc = "face"
  /\ grasp_poses = <<>>
  /\ locals = InitLocals
  /\ IdleIH /\ IdleGIH /\ IdleScore /\ IdleGen
  /\ IdleViz
  /\ IdleConc
  /\ IdleWay

NextFace == AddFaceGrasps

SpecFace == InitFace /\ [][NextFace]_vars

\* the poses of the list pushed by the helper call named src
PosesOf(src) == SelectSeq(grasp_poses, LAMBDA q : q.src = src)

LenAxis == AxisLengths(call.axis, call.depth, call.width, call.height)

\* length of the face sampled by the helper call src: the -a and +a faces
\* run along b, the -b and +b faces along a
FaceLength(src) == IF src \in {"face-a", "face+a"} THEN LenAxis.b ELSE LenAxis.a

FaceNames == {"face-a", "face+b", "face+a", "face-b"}

\* floor((L - finger_width) / grasp_resolution) + 1 when positive, else 3
ClaimedFaceCount(L) ==
  LET v == FloorRat(L - grasp_data.gripper_finger_width_, grasp_data.grasp_resolution_) + 1
  IN  IF v > 0 THEN v ELSE 3

FaceStageDone == pc # "face" /\ call.config.enable_face_grasps_

\* C5: with face grasps enabled and grasp_resolution > 0, the number of poses
\* on each of the four faces is floor((L - finger_width)/grasp_resolution) + 1
\* when positive and 3 otherwise, L the face's own length.
C5_FaceCount ==
  (FaceStageDone /\ grasp_data.grasp_resolution_ > 0) =>
    \A f \in FaceNames : Len(PosesOf(f)) = ClaimedFaceCount(FaceLength(f))

\* offset of a face pose from the centre of its face, along the face
AlongFace(q) ==
  LET dir == AxisDirs(call.cuboid_pose, call.axis)
      d == VSub(q.p, call.cuboid_pose.p)
  IN  IF q.src \in {"face-a", "face+a"} THEN Dot(d, dir.b) ELSE Dot(d, dir.a)

\* C21: every face pose lies within its face's extent: on a face of length
\* L >= finger_width the offset of each pose from the face centre, along the
\* face's sampling direction, is within +/-(L - finger_width)/2 (compared
\* after doubling), on all four faces and for unequal in-plane lengths
C21_WithinFaceExtent ==
  (FaceStageDone /\ pc # "bad_alloc" /\ grasp_data.grasp_resolution_ > 0) =>
    \A j \in DOMAIN grasp_poses :
      LET q == grasp_poses[j]
      IN  (q.src \in FaceNames /\ FaceLength(q.src) >= grasp_data.gripper_finger_width_) =>
            2 * Abs(AlongFace(q)) <= FaceLength(q.src) - grasp_data.gripper_finger_width_

\* C21 on the two faces sampled along b (the -a and +a faces) holds
C21_WithinExtentAlongB ==
  (FaceStageDone /\ pc # "bad_alloc" /\ grasp_data.grasp_resolution_ > 0) =>
    \A j \in DOMAIN grasp_poses :
      LET q == grasp_poses[j]
      IN  (q.src \in {"face-a", "face+a"} /\ FaceLength(q.src) >= grasp_data.gripper_finger_width_) =>
            2 * Abs(AlongFace(q)) <= FaceLength(q.src) - grasp_data.gripper_finger_width_

\* C6: a face whose length is at most the finger width gets exactly 3 poses,
\* with offsets symmetric about the face centre, and sampling does not fail.
C6_NarrowFaceThreePoses ==
  (pc # "face" /\ call.config.enable_face_grasps_) =>
    \A f \in FaceNames :
      FaceLength(f) <= grasp_data.gripper_finger_width_ =>
        /\ pc # "bad_alloc"
        /\ Len(PosesOf(f)) = 3
        /\ \A k \in 1..3 : AlongFace(PosesOf(f)[k]) = -AlongFace(PosesOf(f)[4 - k])

(***************************************************************************)
(* Specification SpecSweep: face sampling followed by the variable-angle   *)
(* sweep of one axis pass                                                  *)
(***************************************************************************)
\* angle_resolution_ values drawn, in degrees (multiples of 15)
AngleResolutions == {15, 30, 45, 60, 90, 180, 270, 315, 345}

MaxDepths == {50, 200, 600}

InitSweep ==
  /\ grasp_data \in {FingerProfile(100, 200, angle, md) : angle \in AngleResolutions, md \in MaxDepths}
  /\ call \in [cuboid_pose : CuboidPoses, depth : {300}, width : {100, 300}, height : {100, 500},
               axis : Axes, config : {Config(FALSE, TRUE, FALSE, TRUE)}]
  /\ pc = "face"
  /\ grasp_poses = <<>>
  /\ locals = InitLocals
  /\ IdleIH /\ IdleGIH /\ IdleScore /\ IdleGen
  /\ IdleViz
  /\ IdleConc
  /\ IdleWay

NextSweep ==
  \/ AddFaceGrasps
  \/ BeginVariableAngle
  \/ SweepIterate
  \/ SweepStop
  \/ SweepNextDirection

SpecSweep == InitSweep /\ [][NextSweep]_vars

SegmentCrossesAFace(pose) ==
  LET z == ZAxis(pose)
      A == InverseApply(call.cuboid_pose, Translation(pose))
      B == InverseApply(call.cuboid_pose,
             VAdd(Translation(pose), << (z[1] * grasp_data.grasp_max_depth_) \div DirScale,
                                        (z[2] * grasp_data.grasp_max_depth_) \div DirScale,
                                        (z[3] * grasp_data.grasp_max_depth_) \div DirScale >>))
  IN  CrossesSomeFace(A, B, <<call.depth, call.width, call.height>>)

SweepPoses == {i \in DOMAIN grasp_poses : grasp_poses[i].src = "variable_angle"}

\* C18 as stated: every pose the sweep appends has a segment that crosses no
\* face of the cuboid (a pose whose segment crosses a face is rejected)
C18_AppendedCrossNoFace ==
  pc \in {"sweep", "sweep_exit", "edge"} =>
    \A i \in SweepPoses : ~SegmentCrossesAFace(grasp_poses[i])

\* C18 amended: every pose the sweep appends has a segment that crosses a
\* face, and a direction that ends without the iteration cap ends at the
\* first turned pose whose segment crosses no face; that pose is not appended
C18_AppendedCrossAFace ==
  pc \in {"sweep", "sweep_exit", "edge"} =>
    /\ \A i \in SweepPoses : SegmentCrossesAFace(grasp_poses[i])
    /\ (pc = "sweep_exit" /\ ~locals.warned) =>
          /\ ~SegmentCrossesAFace(locals.grasp_pose)
          /\ \A i \in SweepPoses : [grasp_poses[i] EXCEPT !.src = locals.grasp_pose.src] # locals.grasp_pose

\* a direction that appended poses and then met a pose whose segment misses the box
C18_Witness ==
  /\ pc = "sweep_exit"
  /\ ~locals.warned
  /\ locals.dir_pushes >= 1
  /\ SweepPoses # {}

(***************************************************************************)
(* Specification SpecGen: whole calls of generateGrasps                    *)
(***************************************************************************)
\* a candidate left in the caller's collection by an earlier call
StaleCandidate == GraspCandidate(0, Pose(Identity3, <<0, 0, 0>>, 0), 100)

\* widest opening of the hands drawn (0.1 mm)
MaxFingerWidths == {350, 1200}

\* "OTHER" stands for every value of end_effector_type_ that is neither FINGER
\* nor SUCTION
EffectorTypes == {"FINGER", "SUCTION", "OTHER"}

GenConfigs ==
  [enable_corner_grasps_ : BOOLEAN, enable_face_grasps_ : {TRUE}, enable_edge_grasps_ : BOOLEAN,
   enable_variable_angle_grasps_ : BOOLEAN,
   generate_x_axis_grasps_ : BOOLEAN, generate_y_axis_grasps_ : {TRUE}, generate_z_axis_grasps_ : {FALSE}]

\* what earlier calls left behind: the caller's collection, the id counter and
\* the ideal grasp pose
Histories ==
  { [candidates |-> <<>>, id |-> 0, ideal |-> IdentityPose],
    [candidates |-> <<StaleCandidate>>, id |-> 7, ideal |-> Isometry(RotX(180), <<50, 50, 50>>)] }

GenProfile(kind, mfw, angle, res, depth_res) ==
  [FingerProfile(100, res, angle, 200) EXCEPT
     !.end_effector_type_ = kind, !.max_finger_width_ = mfw, !.max_grasp_width_ = 300,
     !.grasp_depth_resolution_ = depth_res]

InitCall(h) ==
  /\ \E cfg \in GenConfigs :
       call \in [cuboid_pose : {Isometry(RotZ(90), <<1000, -2000, 500>>)},
                 depth : {100, 300}, width : {300, 500}, height : {100},
                 axis : {"none"}, axis_index : {0}, config : {cfg}, grasp_candidate_config : {cfg},
                 candidates_on_entry : {h.candidates}]
  /\ pc = "generateGrasps"
  /\ grasp_poses = <<>>
  /\ locals = InitLocals
  /\ grasp_candidates = h.candidates
  /\ grasp_id = h.id
  /\ ideal_grasp_pose_ = h.ideal
  /\ width_calls = <<>>
  /\ result = NoRet
  /\ IdleIH /\ IdleGIH /\ IdleScore

InitGen ==
  /\ grasp_data \in {GenProfile(kind, mfw, 45, 100, 100) : kind \in EffectorTypes, mfw \in MaxFingerWidths}
  /\ \E h \in Histories : InitCall(h)
  /\ IdleViz
  /\ IdleConc
  /\ IdleWay

NextGen ==
  \/ GenerateGrasps
  \/ GenerateFingerGrasps
  \/ AddCornerGrasps
  \/ AddFaceGrasps
  \/ BeginVariableAngle
  \/ SweepIterate
  \/ SweepStop
  \/ SweepNextDirection
  \/ AddEdgeGrasps
  \/ AddDepthGrasps
  \/ AddBidirectional
  \/ ComputeMinMax
  \/ AddGrasp
  \/ ReturnFromAxis
  \/ GenerateSuctionGrasps
  \/ SuctionPush
  \/ SuctionNextPose
  \/ SuctionNextStage
  \/ SuctionAddGrasp
  \/ SuctionReturn

SpecGen == InitGen /\ [][NextGen]_vars

\* the candidates the call in progress has appended to the caller's collection
Appended == SubSeq(grasp_candidates, Len(call.candidates_on_entry) + 1, Len(grasp_candidates))

\* how many of the seq's candidates carry the id
CountId(seq, id) == Cardinality({k \in DOMAIN seq : seq[k].id = id})

\* the ids handed out so far by the call in progress (one per addGrasp call)
IdsOfCall == {id \in 0..grasp_id : \E k \in DOMAIN width_calls : width_calls[k].id = id}

BetweenAddGraspCalls == pc \in {"add", "axis_done", "finger", "returned"}

\* C2: for a finger profile every pose handed to addGrasp contributes exactly
\* three candidates or none, so the number of candidates a finger generation
\* call appends is a multiple of 3.
C2_ThreeOrNone ==
  (grasp_data.end_effector_type_ = "FINGER" /\ BetweenAddGraspCalls) =>
    /\ \A id \in IdsOfCall : CountId(Appended, id) \in {0, 3}
    /\ Len(Appended) % 3 = 0

FailedCalls == {k \in DOMAIN width_calls : ~width_calls[k].ok}

Attempted(id, percent_open) ==
  \E j \in DOMAIN width_calls : width_calls[j].id = id /\ width_calls[j].percent_open = percent_open

PoseAttempted(axis, i) ==
  \E j \in DOMAIN width_calls : width_calls[j].axis = axis /\ width_calls[j].pose = i

C4_UnknownKindFails ==
  (pc = "returned" /\ grasp_data.end_effector_type_ \notin {"FINGER", "SUCTION"}) =>
    /\ result = Ret(FALSE)
    /\ grasp_candidates = call.candidates_on_entry

\* such a call has returned, the caller's collection not empty on entry
C4_Witness ==
  /\ pc = "returned"
  /\ grasp_data.end_effector_type_ = "OTHER"
  /\ call.candidates_on_entry # <<>>
  /\ grasp_candidates = call.candidates_on_entry

(***************************************************************************)
(* Specification SpecRes: calls of generateGrasps with resolutions of any  *)
(* sign                                                                    *)
(***************************************************************************)
ResAngles == {-45, 0, 45}

ResLinear == {0, 100}

ResDepth == {-100, 0, 100}

AllEnabled ==
  [enable_corner_grasps_ |-> TRUE, enable_face_grasps_ |-> TRUE, enable_edge_grasps_ |-> TRUE,
   enable_variable_angle_grasps_ |-> TRUE,
   generate_x_axis_grasps_ |-> TRUE, generate_y_axis_grasps_ |-> TRUE, generate_z_axis_grasps_ |-> FALSE]

InitRes ==
  /\ grasp_data \in {GenProfile(kind, 1200, angle, res, depth_res) :
                       kind \in {"FINGER", "SUCTION"}, angle \in ResAngles, res \in ResLinear,
                       depth_res \in ResDepth}
  /\ call = [cuboid_pose |-> Isometry(RotZ(90), <<1000, -2000, 500>>),
             depth |-> 300, width |-> 300, height |-> 100,
             axis |-> "none", axis_index |-> 0, config |-> AllEnabled, grasp_candidate_config |-> AllEnabled,
             candidates_on_entry |-> <<>>]
  /\ pc = "generateGrasps"
  /\ grasp_poses = <<>>
  /\ locals = InitLocals
  /\ grasp_candidates = <<>>
  /\ grasp_id = 0
  /\ ideal_grasp_pose_ = IdentityPose
  /\ width_calls = <<>>
  /\ result = NoRet
  /\ IdleIH /\ IdleGIH /\ IdleScore
  /\ IdleViz
  /\ IdleConc
  /\ IdleWay

SpecRes == InitRes /\ [][NextGen]_vars

ResolutionNotPositive ==
  \/ grasp_data.angle_resolution_ <= 0
  \/ grasp_data.grasp_resolution_ <= 0
  \/ grasp_data.grasp_depth_resolution_ <= 0

\* C8: with an angle or linear resolution that is zero or negative the
\* generation call still comes to its return: no loop runs away until the
\* pose list can no longer grow (std::bad_alloc).
C8_RunawayStopped == ResolutionNotPositive => pc # "bad_alloc"

(***************************************************************************)
(* Specification SpecSuction: calls of generateGrasps with a suction       *)
(* profile                                                                 *)
(***************************************************************************)
\* angle_resolution_ values drawn (degrees)
SuctionAngles == {60, 90, 120, 360, 450}

\* grasp_max_depth_ values drawn; grasp_min_depth_ is 100
SuctionMaxDepths == {100, 200}

\* active_suction_range_x_ and active_suction_range_y_ drawn, for a top face of
\* 300 x 300
SuctionRanges == {<<0, 0>>, <<300, 0>>, <<300, 300>>, <<400, 400>>}

TopPoses == {Isometry(RotZ(90), <<1000, -2000, 500>>), Isometry(RotX(180), <<0, 0, 0>>)}

SuctionProfile(angle, max_depth, range) ==
  [GenProfile("SUCTION", 1200, angle, 100, 100) EXCEPT
     !.grasp_max_depth_ = max_depth,
     !.active_suction_range_x_ = range[1], !.active_suction_range_y_ = range[2]]

\* profiles with a finer grasp_resolution_: two steps of the X and Y sweeps
SuctionFineProfiles ==
  { [SuctionProfile(360, 100, range) EXCEPT !.grasp_resolution_ = 50] : range \in {<<100, 0>>, <<0, 140>>} }

InitSuction ==
  /\ grasp_data \in {SuctionProfile(angle, md, range) :
                       angle \in SuctionAngles, md \in SuctionMaxDepths, range \in SuctionRanges}
                     \cup SuctionFineProfiles
  /\ \E top \in TopPoses :
       call = [cuboid_pose |-> top, depth |-> 300, width |-> 300, height |-> 100,
               axis |-> "none", axis_index |-> 0, config |-> AllEnabled,
               grasp_candidate_config |-> AllEnabled, candidates_on_entry |-> <<>>]
  /\ \E h \in Histories :
       /\ grasp_candidates = h.candidates
       /\ grasp_id = h.id
       /\ ideal_grasp_pose_ = h.ideal
  /\ pc = "generateGrasps"
  /\ grasp_poses = <<>>
  /\ locals = InitLocals
  /\ width_calls = <<>>
  /\ result = NoRet
  /\ IdleIH /\ IdleGIH /\ IdleScore
  /\ IdleViz
  /\ IdleConc
  /\ IdleWay

NextSuction ==
  \/ GenerateGrasps
  \/ GenerateSuctionGrasps
  \/ SuctionPush
  \/ SuctionNextPose
  \/ SuctionNextStage
  \/ SuctionAddGrasp
  \/ SuctionReturn

SpecSuction == InitSuction /\ [][NextSuction]_vars

\* the Z and X/Y sweep ranges are empty: max_depth = min_depth and the object
\* extent minus the active suction extent is not positive along X or along Y
ZeroWidthRanges ==
  /\ grasp_data.grasp_max_depth_ = grasp_data.grasp_min_depth_
  /\ \/ call.depth - grasp_data.active_suction_range_x_ <= 0
     \/ call.width - grasp_data.active_suction_range_y_ <= 0

SuctionReturned == pc = "returned" /\ grasp_data.end_effector_type_ = "SUCTION"

\* q is the re-oriented top-centre pose moved by grasp_min_depth along its Z
\* axis, turned by rz degrees about that axis
IsCentrePose(q, rz) ==
  /\ q.R = ReorientTopGrasp(call.cuboid_pose, ideal_grasp_pose_).R
  /\ q.p = call.cuboid_pose.p
  /\ q.ry = 0 /\ q.rx = 0 /\ q.fan[1] = 0
  /\ q.tx = 0 /\ q.ty = 0
  /\ q.dz.d # 0 /\ q.dz.n = grasp_data.grasp_min_depth_ * q.dz.d
  /\ q.rz = rz

\* C11: with the Z range and the X/Y range zero-width generateSuctionGrasps
\* yields exactly one candidate, the re-oriented top-centre pose moved by
\* grasp_min_depth along its Z axis.
C11_OnlyCentre ==
  (SuctionReturned /\ ZeroWidthRanges) =>
    /\ Len(grasp_candidates) = 1
    /\ IsCentrePose(grasp_candidates[1].grasp_pose, 0)

\* C11 as amended: the first candidate is that centre pose, every other
\* candidate is a copy of it turned about its Z axis by the yaw sweep, and it
\* is the only candidate exactly when angle_resolution_ is at least 360 degrees.
C11_CentreAndYawCopies ==
  (SuctionReturned /\ ZeroWidthRanges) =>
    /\ Len(grasp_candidates) >= 1
    /\ IsCentrePose(grasp_candidates[1].grasp_pose, 0)
    /\ \A k \in 2..Len(grasp_candidates) :
         /\ grasp_candidates[k].grasp_pose.src = "yaw"
         /\ IsCentrePose(grasp_candidates[k].grasp_pose, grasp_candidates[k].grasp_pose.rz)
    /\ Len(grasp_candidates) = 1 <=> grasp_data.angle_resolution_ >= 360

\* a returned call with zero-width Z and X/Y ranges (one of the two X/Y
\* extents still positive) that yielded the centre pose and its yaw copies
C11_Witness ==
  /\ SuctionReturned /\ ZeroWidthRanges
  /\ grasp_data.active_suction_range_x_ # grasp_data.active_suction_range_y_
  /\ grasp_data.angle_resolution_ = 90
  /\ Len(grasp_candidates) = 4

\* the rotations about Z (degrees) of the poses the yaw stage has added to the
\* centre pose
YawAdded == [k \in 1..(locals.num_grasps - 1) |-> grasp_poses[k + 1].rz]

YawStageDone == pc = "suction_sweep" /\ locals.stage = "z"

\* C12: the yaw sweep adds one pose for every multiple k * angle_resolution
\* (k >= 1) strictly below 360 degrees and never a pose at 0 or 360 degrees;
\* with angle_resolution = 90 it adds exactly the 3 poses 90, 180, 270.
C12_YawMultiples ==
  (YawStageDone /\ grasp_data.angle_resolution_ > 0) =>
    /\ Len(YawAdded) = Cardinality({k \in 1..360 : k * grasp_data.angle_resolution_ < 360})
    /\ \A k \in DOMAIN YawAdded :
         /\ YawAdded[k] = k * grasp_data.angle_resolution_
         /\ YawAdded[k] % 360 # 0
    /\ grasp_data.angle_resolution_ = 90 => YawAdded = <<90, 180, 270>>

(***************************************************************************)
(* Specification SpecOrder: finger calls of generateGrasps over any choice *)
(* of the three axis passes                                                *)
(***************************************************************************)
OrderConfigs ==
  [enable_corner_grasps_ : BOOLEAN, enable_face_grasps_ : {TRUE}, enable_edge_grasps_ : {FALSE},
   enable_variable_angle_grasps_ : BOOLEAN,
   generate_x_axis_grasps_ : BOOLEAN, generate_y_axis_grasps_ : BOOLEAN, generate_z_axis_grasps_ : BOOLEAN]

InitOrder ==
  /\ grasp_data \in {GenProfile("FINGER", mfw, 45, 200, 100) : mfw \in MaxFingerWidths}
  /\ \E cfg \in OrderConfigs, h \in Histories :
       /\ call = [cuboid_pose |-> Isometry(RotZ(90), <<1000, -2000, 500>>),
                  depth |-> 300, width |-> 300, height |-> 100,
                  axis |-> "none", axis_index |-> 0, config |-> cfg, grasp_candidate_config |-> cfg,
                  candidates_on_entry |-> h.candidates]
       /\ grasp_candidates = h.candidates
       /\ grasp_id = h.id
       /\ ideal_grasp_pose_ = h.ideal
  /\ pc = "generateGrasps"
  /\ grasp_poses = <<>>
  /\ locals = InitLocals
  /\ width_calls = <<>>
  /\ result = NoRet
  /\ IdleIH /\ IdleGIH /\ IdleScore
  /\ IdleViz
  /\ IdleConc
  /\ IdleWay

NextOrder ==
  \/ GenerateGrasps
  \/ GenerateFingerGrasps
  \/ AddCornerGrasps
  \/ AddFaceGrasps
  \/ BeginVariableAngle
  \/ SweepIterate
  \/ SweepStop
  \/ SweepNextDirection
  \/ AddEdgeGrasps
  \/ AddDepthGrasps
  \/ AddBidirectional
  \/ ComputeMinMax
  \/ AddGrasp
  \/ ReturnFromAxis

SpecOrder == InitOrder /\ [][NextOrder]_vars

AxisRank(axis) == CASE axis = "X_AXIS" -> 1 [] axis = "Y_AXIS" -> 2 [] OTHER -> 3

\* the first setGraspWidth call of the addGrasp call that named its grasp id
CallOf(id) == width_calls[CHOOSE k \in DOMAIN width_calls : width_calls[k].id = id]

\* candidate c comes before candidate d in generation order: earlier axis pass,
\* or earlier pose of the same pass, or wider opening of the same pose
GeneratedBefore(c, d) ==
  LET a == CallOf(c.id)
      b == CallOf(d.id)
  IN  \/ AxisRank(a.axis) < AxisRank(b.axis)
      \/ a.axis = b.axis /\ a.pose < b.pose
      \/ a.axis = b.axis /\ a.pose = b.pose /\ c.percent_open > d.percent_open

\* C14: the candidate list is in generation order: X-axis pass before Y-axis
\* pass before Z-axis pass, within a pass the order of the pose enumeration,
\* and the variants of one pose consecutive in the order 1.0, 0.5, 0.0.
C14_GenerationOrder ==
  (grasp_data.end_effector_type_ = "FINGER" /\ pc \in {"axis_done", "returned"}) =>
    /\ \A c \in 1..(Len(Appended) - 1) : GeneratedBefore(Appended[c], Appended[c + 1])
    /\ pc = "axis_done" =>
         \A c \in DOMAIN Appended :
           CallOf(Appended[c].id).axis = call.axis =>
             Appended[c].grasp_pose = grasp_poses[CallOf(Appended[c].id).pose]

\* a finished call whose list holds candidates of the X, the Y and the Z pass
C14_Witness ==
  /\ pc = "returned" /\ grasp_data.end_effector_type_ = "FINGER"
  /\ \A axis \in {"X_AXIS", "Y_AXIS", "Z_AXIS"} :
       \E c \in DOMAIN Appended : CallOf(Appended[c].id).axis = axis
  /\ \E c \in DOMAIN Appended : Appended[c].percent_open = 0

(***************************************************************************)
(* Specification SpecViz: one generation call with every visualization     *)
(* setting off, then the same call on the same inputs and the same         *)
(* generator state with any choice of the settings                         *)
(***************************************************************************)
SwitchSettings ==
  [verbose_ : BOOLEAN, show_prefiltered_grasps_ : BOOLEAN, debug_top_grasps_ : BOOLEAN,
   show_grasp_overhang_ : BOOLEAN]

VizConfig == [AllEnabled EXCEPT !.generate_y_axis_grasps_ = FALSE]

InitViz ==
  /\ grasp_data \in {GenProfile(kind, mfw, 45, 200, 100) :
                       kind \in {"FINGER", "SUCTION"}, mfw \in MaxFingerWidths}
  /\ \E h \in Histories :
       /\ call = [cuboid_pose |-> Isometry(RotZ(90), <<1000, -2000, 500>>),
                  depth |-> 300, width |-> 300, height |-> 100,
                  axis |-> "none", axis_index |-> 0, config |-> VizConfig,
                  grasp_candidate_config |-> VizConfig, candidates_on_entry |-> h.candidates,
                  id_on_entry |-> h.id, ideal_on_entry |-> h.ideal]
       /\ grasp_candidates = h.candidates
       /\ grasp_id = h.id
       /\ ideal_grasp_pose_ = h.ideal
  /\ pc = "generateGrasps"
  /\ grasp_poses = <<>>
  /\ locals = InitLocals
  /\ width_calls = <<>>
  /\ result = NoRet
  /\ switches = SwitchesOff
  /\ visual_tools_ = 0
  /\ earlier_call = NoCall
  /\ IdleIH /\ IdleGIH /\ IdleScore
  /\ IdleConc
  /\ IdleWay

\* the call has returned: what it returned is kept, and generateGrasps is
\* called again with the arguments, the caller's collection and the generator
\* state of the first call, under any visualization settings
CallAgain ==
  /\ pc = "returned"
  /\ earlier_call = NoCall
  /\ earlier_call' = [switches |-> switches, grasp_candidates |-> grasp_candidates,
                      result |-> result, visual_tools_ |-> visual_tools_]
  /\ switches' \in SwitchSettings
  /\ visual_tools_' = 0
  /\ pc' = "generateGrasps"
  /\ call' = [call EXCEPT !.axis = "none", !.axis_index = 0, !.config = call.grasp_candidate_config]
  /\ grasp_poses' = <<>>
  /\ locals' = InitLocals
  /\ grasp_candidates' = call.candidates_on_entry
  /\ grasp_id' = call.id_on_entry
  /\ ideal_grasp_pose_' = call.ideal_on_entry
  /\ width_calls' = <<>>
  /\ result' = NoRet
  /\ UNCHANGED <<wayVars, concVars, grasp_data, isectVars, gisectVars, scoreVars>>

NextViz ==
  \/ GenerateGrasps
  \/ GenerateFingerGrasps
  \/ AddCornerGrasps
  \/ AddFaceGrasps
  \/ BeginVariableAngle
  \/ SweepIterate
  \/ SweepStop
  \/ SweepNextDirection
  \/ AddEdgeGrasps
  \/ AddDepthGrasps
  \/ AddBidirectional
  \/ ComputeMinMax
  \/ AddGrasp
  \/ ReturnFromAxis
  \/ GenerateSuctionGrasps
  \/ SuctionPush
  \/ SuctionNextPose
  \/ SuctionNextStage
  \/ SuctionAddGrasp
  \/ SuctionReturn
  \/ CallAgain

SpecViz == InitViz /\ [][NextViz]_vars

BothCallsReturned == pc = "returned" /\ earlier_call # NoCall

ThisCall ==
  [pc |-> pc, call |-> call, locals |-> locals, grasp_poses |-> grasp_poses,
   grasp_candidates |-> grasp_candidates, width_calls |-> width_calls, result |-> result,
   switches |-> 0]

\* most context switches of one run
MaxSwitches == 2

\* the scheduler takes the processor from the running call and gives it to the other
Switch ==
  /\ other_call # NoCall
  /\ other_call.switches < MaxSwitches
  /\ other_call' = [ThisCall EXCEPT !.switches = other_call.switches + 1]
  /\ pc' = other_call.pc
  /\ call' = other_call.call
  /\ locals' = other_call.locals
  /\ grasp_poses' = other_call.grasp_poses
  /\ grasp_candidates' = other_call.grasp_candidates
  /\ width_calls' = other_call.width_calls
  /\ result' = other_call.result
  /\ UNCHANGED <<wayVars, normalization, vizVars, grasp_data, grasp_id, ideal_grasp_pose_, isectVars, gisectVars,
                 scoreVars>>

\* face grasps about the X axis only
ConcConfig ==
  [AllEnabled EXCEPT !.enable_corner_grasps_ = FALSE, !.enable_edge_grasps_ = FALSE,
                     !.enable_variable_angle_grasps_ = FALSE, !.generate_y_axis_grasps_ = FALSE]

\* the objects of the two calls: pose, depth, width, height
ConcObjects ==
  { [cuboid_pose |-> Isometry(Identity3, <<1000, -2000, 500>>), depth |-> 300, width |-> 300, height |-> 100],
    [cuboid_pose |-> Isometry(Identity3, <<-1500, 800, 2500>>), depth |-> 100, width |-> 500, height |-> 100] }

ConcCall(object, thread) ==
  [cuboid_pose |-> object.cuboid_pose, depth |-> object.depth, width |-> object.width,
   height |-> object.height, axis |-> "none", axis_index |-> 0, config |-> ConcConfig,
   grasp_candidate_config |-> ConcConfig, candidates_on_entry |-> <<>>, thread |-> thread]

InitConc ==
  /\ grasp_data = GenProfile("FINGER", 1200, 90, 200, 100)
  /\ \E a \in ConcObjects, b \in ConcObjects \cup {NoCall} :
       /\ call = ConcCall(a, 1)
       /\ other_call = IF b = NoCall THEN NoCall
                       ELSE [pc |-> "generateGrasps", call |-> ConcCall(b, 2), locals |-> InitLocals,
                             grasp_poses |-> <<>>, grasp_candidates |-> <<>>, width_calls |-> <<>>,
                             result |-> NoRet, switches |-> 0]
  /\ normalization = [min_grasp_distance_ |-> Uninitialized, max_grasp_distance_ |-> Uninitialized,
                      min_translations_ |-> <<Uninitialized, Uninitialized, Uninitialized>>,
                      max_translations_ |-> <<Uninitialized, Uninitialized, Uninitialized>>]
  /\ pc = "generateGrasps"
  /\ grasp_poses = <<>>
  /\ locals = InitLocals
  /\ grasp_candidates = <<>>
  /\ grasp_id \in {0, 7}
  /\ ideal_grasp_pose_ = IdentityPose
  /\ width_calls = <<>>
  /\ result = NoRet
  /\ IdleIH /\ IdleGIH /\ IdleScore
  /\ IdleViz
  /\ IdleWay

NextConc ==
  \/ GenerateGrasps
  \/ GenerateFingerGrasps
  \/ AddCornerGrasps
  \/ AddFaceGrasps
  \/ BeginVariableAngle
  \/ AddEdgeGrasps
  \/ AddDepthGrasps
  \/ AddBidirectional
  \/ ComputeMinMax
  \/ AddGrasp
  \/ ReturnFromAxis
  \/ Switch

SpecConc == InitConc /\ [][NextConc]_vars

\* the running call is about to score a pose (addGrasp, line 745, calls
\* scoreFingerGrasp, which reads the normalization members at lines 872-877)
AboutToScore == pc = "add" /\ locals.i <= Len(grasp_poses)

\* C16: two calls for different objects that share a profile and run
\* concurrently on one generator do not read each other's state: whenever a
\* call scores a pose, the normalization members hold the bounds of that
\* call's own poses, and the ids of a call's candidates are the consecutive
\* ids it gets when it runs alone (every pose of these calls is accepted, so
\* neighbouring candidates carry the same id or the next one)
C16_CallsDoNotInterfere ==
  /\ AboutToScore => normalization = MinMax(grasp_poses, call.cuboid_pose)
  /\ \A c \in 1..(Len(grasp_candidates) - 1) :
       grasp_candidates[c + 1].id - grasp_candidates[c].id \in {0, 1}

\* a call run alone (no second call on the generator) does score poses
C16_AloneWitness == other_call = NoCall /\ AboutToScore /\ locals.i > 1

\* C16 for a call that runs alone: it reads its own bounds and ids
C16_AloneOwnState == other_call = NoCall => C16_CallsDoNotInterfere


(***************************************************************************)
(* getGraspWaypoints, getPreGraspPose, getPreGraspDirection.  A pose       *)
(* message and the Isometry3d made of it are both the pair of a rotation   *)
(* and a translation; direction vectors lie along an axis.                 *)
(***************************************************************************)
\* Eigen's normalize() on a vector along one axis
Normalized(v) == <<Sgn(v[1]), Sgn(v[2]), Sgn(v[3])>>

\* getPreGraspDirection with the direction turned into the grasp frame always
getPreGraspDirection_alwayslocal(grasp, ee_parent_link) ==
  MatVec(grasp.grasp_pose.R, grasp.pre_grasp_approach.direction)

\* lines 1216-1234
getPreGraspDirection(grasp, ee_parent_link) ==
  IF grasp.pre_grasp_approach.frame_id = ee_parent_link
  THEN MatVec(grasp.grasp_pose.R, grasp.pre_grasp_approach.direction)
  ELSE grasp.pre_grasp_approach.direction

\* lines 1236-1261
getPreGraspPose(candidate, ee_parent_link) ==
  [candidate.grasp_.grasp_pose EXCEPT
     !.p = VSub(@, VScale(candidate.grasp_.pre_grasp_approach.desired_distance,
                          getPreGraspDirection(candidate.grasp_, ee_parent_link)))]

\* lines 1263-1295: the four poses assigned to grasp_waypoints
getGraspWaypoints(candidate) ==
  LET grasp_pose == candidate.grasp_.grasp_pose
      pregrasp_pose == getPreGraspPose(candidate, candidate.grasp_data_.parent_link_)
      lifted_grasp_pose ==
        [grasp_pose EXCEPT !.p = VAdd(@, <<0, 0, candidate.grasp_data_.lift_distance_desired_>>)]
      postgrasp_vector == Normalized(candidate.grasp_.post_grasp_retreat.direction)
      retreat_pose ==
        [lifted_grasp_pose EXCEPT
           !.p = VAdd(@, VScale(candidate.grasp_.post_grasp_retreat.desired_distance,
                                MatVec(lifted_grasp_pose.R, postgrasp_vector)))]
  IN  <<pregrasp_pose, grasp_pose, lifted_grasp_pose, retreat_pose>>

\* the caller's call of getGraspWaypoints: clear(), resize(4) and the four assignments
GetGraspWaypoints ==
  /\ pc = "getGraspWaypoints"
  /\ grasp_waypoints' = getGraspWaypoints(grasp_candidate)
  /\ pc' = "returned"
  /\ UNCHANGED <<grasp_candidate, concVars, vizVars, grasp_data, call, grasp_poses, locals, genVars,
                 isectVars, gisectVars, scoreVars>>

WayRotations == {Identity3, RotZ(90), RotX(180), RotY(90), RotY(270)}

WayPoints == {<<0, 0, 0>>, <<1000, -2000, 500>>}

WayDirections == {<<0, 0, 1>>, <<0, 0, -1>>, <<1, 0, 0>>, <<0, -1, 0>>}

WayDistances == {0, 100, 250}

WayFrames == {"parent_link", "world"}

\* what the output vector holds before the call
WayPrior ==
  {<<>>, <<Isometry(RotZ(90), <<7, 7, 7>>)>>,
   [i \in 1..6 |-> Isometry(RotX(180), <<i, 0, 0>>)]}

WayCandidates ==
  { [grasp_ |-> [grasp_pose |-> Isometry(R, p),
                 pre_grasp_approach |-> [direction |-> dir, frame_id |-> frame, desired_distance |-> dist],
                 post_grasp_retreat |-> [direction |-> VScale(-2, dir), frame_id |-> frame,
                                         desired_distance |-> 100]],
     grasp_data_ |-> [parent_link_ |-> "parent_link", lift_distance_desired_ |-> lift]] :
    R \in WayRotations, p \in WayPoints, dir \in WayDirections, frame \in WayFrames,
    dist \in WayDistances, lift \in WayDistances }

InitWay ==
  /\ grasp_candidate \in WayCandidates
  /\ grasp_waypoints \in WayPrior
  /\ call = [candidate_on_entry |-> grasp_candidate]
  /\ pc = "getGraspWaypoints"
  /\ grasp_data = FingerProfile(100, 100, 90, 200)
  /\ grasp_poses = <<>>
  /\ locals = InitLocals
  /\ grasp_candidates = <<>>
  /\ grasp_id = 0
  /\ ideal_grasp_pose_ = IdentityPose
  /\ width_calls = <<>>
  /\ result = NoRet
  /\ IdleIH /\ IdleGIH /\ IdleScore
  /\ IdleViz
  /\ IdleConc

NextWay ==
  \/ GetGraspWaypoints

SpecWay == InitWay /\ [][NextWay]_vars

\* the approach direction of a grasp in the frame of its pose message: a
\* direction given in the parent link's frame turns with the grasp pose
ApproachInWorld(grasp, parent_link) ==
  IF grasp.pre_grasp_approach.frame_id = parent_link
  THEN MatVec(grasp.grasp_pose.R, grasp.pre_grasp_approach.direction)
  ELSE grasp.pre_grasp_approach.direction

WaypointsReturned == grasp_candidate # NoCall /\ pc = "returned"

\* C17: after getGraspWaypoints, whatever the output vector held, it holds
\* exactly four poses (pre-grasp, grasp, lift, retreat): the second is the
\* candidate's grasp pose, the third the grasp pose raised by
\* lift_distance_desired_ along world Z, the first the grasp pose moved back
\* by the approach direction times the approach distance, all four have the
\* grasp pose's rotation, and the candidate is the one handed in
C17_FourWaypoints ==
  WaypointsReturned =>
    LET grasp == grasp_candidate.grasp_
        pose == grasp.grasp_pose
    IN  /\ Len(grasp_waypoints) = 4
        /\ grasp_waypoints[2] = pose
        /\ grasp_waypoints[3].p = VAdd(pose.p, <<0, 0, grasp_candidate.grasp_data_.lift_distance_desired_>>)
        /\ VAdd(grasp_waypoints[1].p,
                VScale(grasp.pre_grasp_approach.desired_distance,
                       ApproachInWorld(grasp, grasp_candidate.grasp_data_.parent_link_))) = pose.p
        /\ \A w \in 1..4 : grasp_waypoints[w].R = pose.R
        /\ grasp_candidate = call.candidate_on_entry

\* a turned grasp whose approach direction is given in another frame than the
\* parent link's, with a longer output vector before the call, and all three
\* displacements at work
C17_Witness ==
  /\ WaypointsReturned
  /\ grasp_candidate.grasp_.grasp_pose.R = RotY(90)
  /\ grasp_candidate.grasp_.pre_grasp_approach.frame_id = "world"
  /\ grasp_waypoints[1].p # grasp_waypoints[2].p
  /\ grasp_waypoints[3].p # grasp_waypoints[2].p
  /\ grasp_waypoints[4].p # grasp_waypoints[3].p


(***************************************************************************)
(* The base poses of the variable-angle sweep                              *)
(***************************************************************************)
CornerSources == {"corner-a-b", "corner-a+b", "corner+a+b", "corner+a-b"}

FaceSources == {"face-a", "face+b", "face+a", "face-b"}

EdgeSources == {"edge-a", "edge+b", "edge+a", "edge-b"}

\* the indices of grasp_poses the loop of line 279 has taken as base_pose
\* when the sweep is over (locals.i is one past the last of them)
SweptBases == (locals.num_corner_grasps + 1)..(locals.i - 1)

\* C19: with variable-angle grasps enabled, once the poses of an axis are
\* generated the sweep has been started from every face pose and every edge
\* pose, from no corner pose and from no pose the sweep itself appended
C19_SweepBases ==
  (pc = "depth" /\ call.config.enable_variable_angle_grasps_) =>
    \A j \in DOMAIN grasp_poses :
      /\ grasp_poses[j].src \in FaceSources \cup EdgeSources => j \in SweptBases
      /\ grasp_poses[j].src \in CornerSources \cup {"variable_angle"} => j \notin SweptBases

\* C19 without the edge poses: the bases are the face poses and no others
C19_FaceBasesOnly ==
  (pc = "depth" /\ call.config.enable_variable_angle_grasps_) =>
    \A j \in DOMAIN grasp_poses : grasp_poses[j].src \in FaceSources <=> j \in SweptBases


(***************************************************************************)
(* Specification SpecCorner: the corner stage over angle resolutions       *)
(***************************************************************************)
CornerAngles == {5, 15, 30, 45, 60, 90, 100, 180}

InitCorner ==
  /\ grasp_data \in {FingerProfile(100, 200, angle, 200) : angle \in CornerAngles}
  /\ call \in [cuboid_pose : CuboidPoses, depth : {300}, width : {100, 300}, height : {100, 500},
               axis : Axes, config : {Config(corner, TRUE, FALSE, FALSE) : corner \in BOOLEAN}]
  /\ pc = "corner"
  /\ grasp_poses = <<>>
  /\ locals = InitLocals
  /\ IdleIH /\ IdleGIH /\ IdleScore /\ IdleGen
  /\ IdleViz
  /\ IdleConc
  /\ IdleWay

NextCorner ==
  \/ AddCornerGrasps

SpecCorner == InitCorner /\ [][NextCorner]_vars

\* the corner stage of a call with corner grasps enabled is over
CornerStageDone == pc = "face" /\ call.config.enable_corner_grasps_ /\ grasp_data.angle_resolution_ > 0

\* the angle of a fan pose from the starting orientation of its corner is
\* 90 * fan[1] / fan[2] degrees: strictly between 0 and a quarter turn
StrictlyInQuarterTurn(pose) == 0 < pose.fan[1] /\ pose.fan[1] < pose.fan[2]

\* C20 as stated: with corner grasps enabled the axis gets
\* 4 * (1 + ceil((pi/2) / angle_resolution)) corner poses, one at each corner
\* itself plus the fan, and every fan pose is turned by an angle strictly
\* between 0 and a quarter turn
C20_CornerPlusFan ==
  CornerStageDone =>
    /\ Len(grasp_poses) = 4 * (1 + CeilDiv(90, grasp_data.angle_resolution_))
    /\ \A j \in DOMAIN grasp_poses : grasp_poses[j].fan[1] # 0 => StrictlyInQuarterTurn(grasp_poses[j])

\* C20 amended: each of the 4 corners contributes the fan only, n =
\* ceil((pi/2) / angle_resolution) poses that stand at the corner and are
\* turned by i * (pi/2) / (n + 1), i = 1..n, so 4 * n corner poses per axis,
\* each turned by an angle strictly between 0 and a quarter turn
C20_FanOnly ==
  CornerStageDone =>
    LET n == CeilDiv(90, grasp_data.angle_resolution_)
    IN  /\ Len(grasp_poses) = 4 * n
        /\ \A j \in DOMAIN grasp_poses : StrictlyInQuarterTurn(grasp_poses[j])
        /\ \A c \in CornerSources :
             LET fan == {j \in DOMAIN grasp_poses : grasp_poses[j].src = c}
             IN  /\ Cardinality(fan) = n
                 /\ {grasp_poses[j].fan : j \in fan} = {<<i, n + 1>> : i \in 1..n}
                 /\ \A j, k \in fan : grasp_poses[j].p = grasp_poses[k].p /\ grasp_poses[j].R = grasp_poses[k].R

\* a corner stage with a fan of three poses per corner
C20_Witness ==
  /\ CornerStageDone
  /\ grasp_data.angle_resolution_ = 30
  /\ Len(grasp_poses) = 12


(***************************************************************************)
(* Specification SpecDepth: the face, edge, depth and bidirectional stages *)
(* of one axis pass over finger depths and depth resolutions               *)
(***************************************************************************)
DepthProfiles ==
  { [FingerProfile(100, 200, 90, max_depth) EXCEPT !.grasp_depth_resolution_ = depth_res] :
      max_depth \in {100, 150, 200, 400}, depth_res \in {100, 200} }

InitDepth ==
  /\ grasp_data \in DepthProfiles
  /\ call \in [cuboid_pose : CuboidPoses, depth : {300}, width : {100, 300}, height : {100, 300},
               axis : Axes, config : {Config(FALSE, TRUE, edge, FALSE) : edge \in BOOLEAN}]
  /\ pc = "face"
  /\ grasp_poses = <<>>
  /\ locals = InitLocals
  /\ IdleIH /\ IdleGIH /\ IdleScore /\ IdleGen
  /\ IdleViz
  /\ IdleConc
  /\ IdleWay

NextDepth ==
  \/ AddFaceGrasps
  \/ BeginVariableAngle
  \/ AddEdgeGrasps
  \/ AddDepthGrasps
  \/ AddBidirectional

SpecDepth == InitDepth /\ [][NextDepth]_vars

\* D of the claim: ceil((max_depth - min_depth) / depth_resolution)
ClaimedDepthCount ==
  CeilDiv(grasp_data.grasp_max_depth_ - grasp_data.grasp_min_depth_, grasp_data.grasp_depth_resolution_)

\* what a depth stage that meets the claim does to the N poses it finds: it
\* keeps them and appends D replicas of each, displaced along the pose's own
\* Z axis by strictly increasing amounts, the last by max_depth - min_depth
DepthStageAsClaimed(before, after, D) ==
  LET N == Len(before)
  IN  /\ Len(after) = N * (1 + D)
      /\ SubSeq(after, 1, N) = before
      /\ \A i \in 1..N :
           /\ \A j \in 1..D :
                LET r == after[N + (i - 1) * D + j]
                    deeper == IF j = 1 THEN before[i] ELSE after[N + (i - 1) * D + j - 1]
                IN  /\ [r EXCEPT !.dz = before[i].dz] = before[i]
                    /\ r.dz.n * deeper.dz.d > deeper.dz.n * r.dz.d
           /\ D >= 1 =>
                after[N + i * D].dz.n =
                  (grasp_data.grasp_max_depth_ - grasp_data.grasp_min_depth_) * after[N + i * D].dz.d

\* what a bidirectional stage that meets the claim does: it keeps the poses
\* and appends one copy of each, turned by 180 degrees about its own Z axis
BidirectionalStageAsClaimed(before, after) ==
  /\ Len(after) = 2 * Len(before)
  /\ SubSeq(after, 1, Len(before)) = before
  /\ \A i \in DOMAIN before :
       after[Len(before) + i] = [before[i] EXCEPT !.rz = (before[i].rz + 180) % 360]

\* C22: the depth sweep keeps the N poses it finds and appends D =
\* ceil((max_depth - min_depth) / depth_resolution) replicas of each at
\* strictly increasing penetration, the deepest displaced by exactly
\* max_depth - min_depth; the bidirectional stage then appends one copy of
\* each pose turned by 180 degrees about its own Z axis, translation
\* unchanged, so the pass ends with 2 * N * (1 + D) poses
C22_DepthAndBidirectional ==
  [][/\ (pc = "depth" /\ pc' = "bidirectional") =>
          DepthStageAsClaimed(grasp_poses, grasp_poses', ClaimedDepthCount)
     /\ (pc = "bidirectional" /\ pc' = "minmax") =>
          BidirectionalStageAsClaimed(grasp_poses, grasp_poses')]_vars

\* C22 for profiles with max_depth > min_depth
C22_WhenDepthPositive ==
  [][grasp_data.grasp_max_depth_ > grasp_data.grasp_min_depth_ =>
       /\ (pc = "depth" /\ pc' = "bidirectional") =>
            DepthStageAsClaimed(grasp_poses, grasp_poses', ClaimedDepthCount)
       /\ (pc = "bidirectional" /\ pc' = "minmax") =>
            BidirectionalStageAsClaimed(grasp_poses, grasp_poses')]_vars


(***************************************************************************)
(* The normalization bounds of an axis pass                                *)
(***************************************************************************)
\* the coordinates j of the poses of the pass, and their distances from the
\* cuboid centre (as squares)
PoseCoordinates(j) == {Translation(grasp_poses[i])[j] : i \in DOMAIN grasp_poses}

PoseDistances == {grasp_distance(grasp_poses[i], call.cuboid_pose) : i \in DOMAIN grasp_poses}

TrueMin(values) == CHOOSE x \in values : \A y \in values : x <= y

TrueMax(values) == CHOOSE x \in values : \A y \in values : y <= x

\* the pass has computed its bounds and has not scored a pose yet
BoundsComputed == pc = "add" /\ locals.i = 1 /\ grasp_poses # <<>>

\* C23: after the expansion of an axis pass, before any pose of the pass is
\* scored, the four normalization members hold the true minimum and maximum
\* of the distances of the poses from the cuboid centre and of each of
\* their coordinates, wherever the cuboid stands
C23_TrueBounds ==
  BoundsComputed =>
    /\ normalization.min_grasp_distance_ = Num(TrueMin(PoseDistances))
    /\ normalization.max_grasp_distance_ = Num(TrueMax(PoseDistances))
    /\ \A j \in 1..3 :
         /\ normalization.min_translations_[j] = Num(TrueMin(PoseCoordinates(j)))
         /\ normalization.max_translations_[j] = Num(TrueMax(PoseCoordinates(j)))

\* C23 without the maxima of coordinates on which no pose is positive
C23_BoundsButNegativeMaxima ==
  BoundsComputed =>
    /\ normalization.min_grasp_distance_ = Num(TrueMin(PoseDistances))
    /\ normalization.max_grasp_distance_ = Num(TrueMax(PoseDistances))
    /\ \A j \in 1..3 :
         /\ normalization.min_translations_[j] = Num(TrueMin(PoseCoordinates(j)))
         /\ TrueMax(PoseCoordinates(j)) > 0 =>
              normalization.max_translations_[j] = Num(TrueMax(PoseCoordinates(j)))
         /\ TrueMax(PoseCoordinates(j)) <= 0 => normalization.max_translations_[j] = DblMin


(***************************************************************************)
(* Specification SpecReorient: the entry of generateSuctionGrasps over the *)
(* orientations of the top pose and of the ideal grasp                     *)
(***************************************************************************)
QuarterTurns == {0, 90, 180, 270}

\* the 24 rotations that map the axes onto axes
AxisAlignedRotations ==
  {MatMul(MatMul(RotX(a), RotY(b)), RotZ(c)) : a \in QuarterTurns, b \in QuarterTurns, c \in QuarterTurns}

InitReorient ==
  /\ grasp_data = SuctionProfile(90, 100, <<0, 0>>)
  /\ \E R \in AxisAlignedRotations :
       call = [cuboid_pose |-> Isometry(R, <<1000, -2000, 500>>), depth |-> 300, width |-> 300,
               height |-> 100, axis |-> "none", axis_index |-> 0, config |-> AllEnabled,
               grasp_candidate_config |-> AllEnabled, candidates_on_entry |-> <<>>]
  /\ \E R \in AxisAlignedRotations : ideal_grasp_pose_ = Isometry(R, <<50, 50, 50>>)
  /\ grasp_candidates = <<>>
  /\ grasp_id = 0
  /\ pc = "generateGrasps"
  /\ grasp_poses = <<>>
  /\ locals = InitLocals
  /\ width_calls = <<>>
  /\ result = NoRet
  /\ IdleIH /\ IdleGIH /\ IdleScore
  /\ IdleViz
  /\ IdleConc
  /\ IdleWay

NextReorient ==
  \/ GenerateGrasps
  \/ GenerateSuctionGrasps

SpecReorient == InitReorient /\ [][NextReorient]_vars

\* column k of a rotation: the image of the unit vector k
AxisOf(R, k) == MatVec(R, Unit(k))

\* the re-orientation step is over; the anchor pose is the centre pose
\* without its shift by grasp_min_depth_ along Z
Reoriented == grasp_data.end_effector_type_ = "SUCTION" /\ pc = "suction_sweep" /\ grasp_poses # <<>>

\* C24: after the suction re-orientation step the anchor pose has the origin
\* of the given top pose, its Z axis has a non-negative dot product with the
\* ideal grasp's Z axis and its X axis a non-negative dot product with the
\* ideal grasp's X axis, for every pair of orientations
C24_AnchorAligned ==
  Reoriented =>
    /\ grasp_poses[1].p = call.cuboid_pose.p
    /\ Dot(AxisOf(grasp_poses[1].R, 3), AxisOf(ideal_grasp_pose_.R, 3)) >= 0
    /\ Dot(AxisOf(grasp_poses[1].R, 1), AxisOf(ideal_grasp_pose_.R, 1)) >= 0

\* a top pose whose Z axis and X axis both oppose the ideal grasp's: both
\* flips were made
C24_Witness ==
  /\ Reoriented
  /\ Dot(AxisOf(call.cuboid_pose.R, 3), AxisOf(ideal_grasp_pose_.R, 3)) < 0
  /\ Dot(AxisOf(call.cuboid_pose.R, 1), AxisOf(ideal_grasp_pose_.R, 1)) < 0
  /\ grasp_poses[1].R = MatMul(MatMul(call.cuboid_pose.R, RotX(180)), RotZ(180))


(***************************************************************************)
(* The composition of the suction stages                                   *)
(***************************************************************************)
\* the number of values the loop of a stage takes: min, min + increment, ...
\* while the loop condition holds (the increments of these profiles are
\* positive, so the values that pass the condition are the first ones)
StepsOf(stage) ==
  Cardinality({k \in 0..MaxPoses :
                 StageContinues(stage, StageMin(stage, grasp_data) + k * StageIncrement(stage, grasp_data),
                                grasp_data, call.depth, call.width)})

\* C25: each suction stage (yaw, depth, Y, X) expands every pose present
\* when it starts, so the call ends with (1 + n_yaw) * (1 + n_z) *
\* (1 + 2 * n_xy) * (1 + 2 * n_xy) poses; none is filtered out: exactly one
\* candidate is emitted per pose, in the order of the poses, the first for
\* the centre pose
C25_StagesMultiply ==
  SuctionReturned =>
    /\ Len(grasp_poses) =
         (1 + StepsOf("yaw")) * (1 + StepsOf("z")) * (1 + 2 * StepsOf("y")) * (1 + 2 * StepsOf("x"))
    /\ Len(grasp_candidates) = Len(grasp_poses)
    /\ \A i \in DOMAIN grasp_poses : grasp_candidates[i].grasp_pose = grasp_poses[i]
    /\ grasp_candidates[1].grasp_pose.src = "center"

\* a call in which all four stages add poses
C25_Witness ==
  /\ SuctionReturned
  /\ StepsOf("yaw") = 3 /\ StepsOf("z") = 1 /\ StepsOf("y") = 1 /\ StepsOf("x") = 1
  /\ Len(grasp_candidates) = 72


(***************************************************************************)
(* The X and Y sweeps of generateSuctionGrasps                             *)
(***************************************************************************)
\* twice the xy_max of the claim: the lesser of depth - active_suction_range_x
\* and width - active_suction_range_y
ClaimedXYMax2 ==
  IF call.depth - grasp_data.active_suction_range_x_ <= call.width - grasp_data.active_suction_range_y_
  THEN call.depth - grasp_data.active_suction_range_x_
  ELSE call.width - grasp_data.active_suction_range_y_

\* a translation the sweep may apply: a whole number of steps of
\* grasp_resolution, at least one, in either sign, of size at most xy_max
SweepOffset(t) ==
  t # 0 => /\ Abs(t) % grasp_data.grasp_resolution_ = 0
           /\ Abs(t) >= grasp_data.grasp_resolution_
           /\ 2 * Abs(t) <= ClaimedXYMax2

\* C26: every suction pose is translated in its own X and in its own Y by at
\* most xy_max = min((depth - active_suction_range_x) / 2, (width -
\* active_suction_range_y) / 2) in either sign, in steps of grasp_resolution
\* from grasp_resolution on; the X and the Y sweep use the same offsets, and
\* no pose is translated when xy_max < grasp_resolution
C26_XYSweepBounds ==
  (SuctionReturned /\ grasp_data.grasp_resolution_ > 0) =>
    /\ \A i \in DOMAIN grasp_poses : SweepOffset(grasp_poses[i].tx) /\ SweepOffset(grasp_poses[i].ty)
    /\ {grasp_poses[i].tx : i \in DOMAIN grasp_poses} = {grasp_poses[i].ty : i \in DOMAIN grasp_poses}
    /\ \A i \in DOMAIN grasp_poses :
         \E k \in DOMAIN grasp_poses :
           grasp_poses[k] = [grasp_poses[i] EXCEPT !.tx = -grasp_poses[i].tx, !.ty = -grasp_poses[i].ty]
    /\ ClaimedXYMax2 < 2 * grasp_data.grasp_resolution_ =>
         \A i \in DOMAIN grasp_poses : grasp_poses[i].tx = 0 /\ grasp_poses[i].ty = 0

\* a call whose X and Y sweeps take two steps, up to the bound set by the
\* narrower of the two ranges
C26_Witness ==
  /\ SuctionReturned
  /\ ClaimedXYMax2 = 200 /\ grasp_data.grasp_resolution_ = 50
  /\ {grasp_poses[i].tx : i \in DOMAIN grasp_poses} = {-100, -50, 0, 50, 100}
  /\ Len(grasp_poses) = 25

\* ---------------------------------------------------------------------
\* generateFingerGrasps over objects too wide for the gripper along some
\* axes and not along others (max_grasp_width_ is 150 here)

AxisConfigs ==
  [enable_corner_grasps_ : BOOLEAN, enable_face_grasps_ : BOOLEAN, enable_edge_grasps_ : BOOLEAN,
   enable_variable_angle_grasps_ : BOOLEAN,
   generate_x_axis_grasps_ : BOOLEAN, generate_y_axis_grasps_ : {TRUE}, generate_z_axis_grasps_ : BOOLEAN]

AxisObjects == {<<200, 100, 100>>, <<100, 200, 100>>, <<200, 200, 100>>, <<100, 100, 200>>, <<100, 100, 100>>}

InitAxis ==
  /\ grasp_data = [GenProfile("FINGER", 1200, 45, 200, 100) EXCEPT !.max_grasp_width_ = 150]
  /\ \E cfg \in AxisConfigs, o \in AxisObjects :
       call = [cuboid_pose |-> Isometry(RotZ(90), <<1000, -2000, 500>>),
               depth |-> o[1], width |-> o[2], height |-> o[3],
               axis |-> "none", axis_index |-> 0, config |-> cfg, grasp_candidate_config |-> cfg,
               candidates_on_entry |-> <<>>]
  /\ grasp_candidates = <<>>
  /\ grasp_id = 0
  /\ ideal_grasp_pose_ = IdentityPose
  /\ pc = "generateGrasps"
  /\ grasp_poses = <<>>
  /\ locals = InitLocals
  /\ width_calls = <<>>
  /\ result = NoRet
  /\ IdleIH /\ IdleGIH /\ IdleScore
  /\ IdleViz
  /\ IdleConc
  /\ IdleWay

NextAxis ==
  \/ GenerateGrasps
  \/ GenerateFingerGrasps
  \/ AddCornerGrasps
  \/ AddFaceGrasps
  \/ BeginVariableAngle
  \/ SweepIterate
  \/ SweepStop
  \/ SweepNextDirection
  \/ AddEdgeGrasps
  \/ AddDepthGrasps
  \/ AddBidirectional
  \/ ComputeMinMax
  \/ AddGrasp
  \/ ReturnFromAxis

SpecAxis == InitAxis /\ [][NextAxis]_vars

\* the stages of one generateCuboidAxisGrasps pass
InAxisPass ==
  pc \in {"corner", "face", "variable_angle", "sweep", "sweep_exit", "edge", "depth",
          "bidirectional", "minmax", "add", "axis_done"}

\* the object's dimension along the axis of the running pass exceeds
\* max_grasp_width_
TooWide == ObjectWidth(call.axis, call.depth, call.width, call.height) > grasp_data.max_grasp_width_

\* C27: in every axis pass of generateFingerGrasps the config in use is the
\* caller's when the object's dimension along the axis is at most
\* max_grasp_width_, and the caller's with face and variable-angle grasps
\* off (edge and corner grasps as the caller set them) when it exceeds it,
\* whatever the earlier passes were given; a restricted pass makes no face
\* or variable-angle pose; and no step changes the caller's config
C27_PerAxisRestriction ==
  [][/\ call'.grasp_candidate_config = call.grasp_candidate_config
     /\ InAxisPass' =>
           /\ call'.config = IF TooWide'
                             THEN [call'.grasp_candidate_config EXCEPT
                                     !.enable_face_grasps_ = FALSE,
                                     !.enable_variable_angle_grasps_ = FALSE]
                             ELSE call'.grasp_candidate_config
           /\ (TooWide' /\ pc' # "corner") =>
                 \A i \in DOMAIN grasp_poses' :
                   grasp_poses'[i].src \notin FaceSources \cup {"variable_angle"}]_vars

\* an unrestricted Y pass with the caller's face and variable-angle grasps,
\* run after a restricted X pass that made edge grasps only
C27_Witness ==
  /\ pc = "minmax" /\ call.axis = "Y_AXIS" /\ ~TooWide
  /\ call.depth > grasp_data.max_grasp_width_
  /\ call.grasp_candidate_config.generate_x_axis_grasps_
  /\ call.config.enable_face_grasps_ /\ call.config.enable_variable_angle_grasps_
  /\ call.config.enable_edge_grasps_ /\ ~call.config.enable_corner_grasps_
  /\ \E i \in DOMAIN grasp_poses : grasp_poses[i].src \in FaceSources
  /\ \E i \in DOMAIN grasp_candidates : grasp_candidates[i].grasp_pose.src \in EdgeSources
  /\ \A i \in DOMAIN grasp_candidates : grasp_candidates[i].grasp_pose.src \notin FaceSources

\* ---------------------------------------------------------------------
\* the working pose list of one axis pass

IsPrefix(s, t) == Len(s) <= Len(t) /\ SubSeq(t, 1, Len(s)) = s

\* a step of a pass after the list was created leaves the poses it finds
\* where and as they are
ListOnlyGrows == (InAxisPass /\ pc # "corner") => IsPrefix(grasp_poses, grasp_poses')

\* the variable-angle stage takes its base poses from the positions first ..
\* size-at-start of the list, one after the other
SweepIteratesFrom(first) ==
  /\ (pc = "variable_angle" /\ call.config.enable_variable_angle_grasps_) =>
        IF pc' = "sweep"
        THEN locals'.i = first /\ locals'.num_grasps = Len(grasp_poses)
        ELSE first > Len(grasp_poses)
  /\ (pc \in {"sweep", "sweep_exit"} /\ pc' \in {"sweep", "sweep_exit"}) =>
        /\ locals'.num_grasps = locals.num_grasps
        /\ locals'.i \in {locals.i, locals.i + 1}
        /\ locals'.i <= locals.num_grasps
        /\ locals'.grasp_pose.src = grasp_poses[locals'.i].src
  /\ (pc = "sweep_exit" /\ pc' = "edge") => locals.i = locals.num_grasps

\* the depth stage appends the same number of replicas of each pose it
\* found, in the order of the poses, and of no other pose
DepthIteratesOverPresent ==
  (pc = "depth" /\ pc' = "bidirectional" /\ grasp_poses # <<>>) =>
    LET N == Len(grasp_poses)
    IN  \E D \in 1..MaxPoses :
          /\ Len(grasp_poses') = N * (1 + D)
          /\ \A i \in 1..N, j \in 1..D :
               [grasp_poses'[N + (i - 1) * D + j] EXCEPT !.dz = grasp_poses[i].dz] = grasp_poses[i]

BidirectionalIteratesOverPresent ==
  (pc = "bidirectional" /\ pc' = "minmax") => BidirectionalStageAsClaimed(grasp_poses, grasp_poses')

\* C28 as stated: within an axis pass the pose list only grows, and the
\* variable-angle, depth and bidirectional stages each iterate over exactly
\* the poses that were in the list when the stage started
C28_StagesOverAllPresent ==
  [][ListOnlyGrows /\ SweepIteratesFrom(1) /\ DepthIteratesOverPresent
       /\ BidirectionalIteratesOverPresent]_vars

\* C28 amended: within an axis pass the pose list only grows; the depth and
\* bidirectional stages iterate over exactly the poses in the list when they
\* start, and the variable-angle stage over those of them that follow the
\* corner poses (positions num_corner_grasps .. size - 1); no stage iterates
\* over a pose it appended
C28_StagesOverPresentButCorners ==
  [][ListOnlyGrows /\ SweepIteratesFrom(locals.num_corner_grasps + 1) /\ DepthIteratesOverPresent
       /\ BidirectionalIteratesOverPresent]_vars

\* a pass with corner poses at the head of the list whose face poses were
\* swept, with the replicas of the depth and the bidirectional stage behind
C28_Witness ==
  /\ pc = "minmax"
  /\ locals.num_corner_grasps > 0
  /\ grasp_poses[1].src \in CornerSources
  /\ \E i \in DOMAIN grasp_poses : grasp_poses[i].src = "variable_angle"
  /\ \E i \in DOMAIN grasp_poses : grasp_poses[i].dz.n > 0 /\ grasp_poses[i].rz = 180

\* ---------------------------------------------------------------------
\* two generateGrasps calls one after the other on the same candidate
\* collection: the static grasp_id and the generator's members live on

\* the last profile is of a gripper that no opening fits (min_finger_width_
\* above max_finger_width_)
SeqProfiles ==
  {GenProfile(kind, mfw, 45, 200, 100) : kind \in {"FINGER", "SUCTION"}, mfw \in MaxFingerWidths}
    \cup {[GenProfile("FINGER", 350, 45, 200, 100) EXCEPT !.min_finger_width_ = 400]}

SeqConfigs == {cfg \in GenConfigs : cfg.generate_x_axis_grasps_ /\ ~cfg.enable_edge_grasps_}

InitSeq ==
  /\ grasp_data \in SeqProfiles
  /\ \E cfg \in SeqConfigs, h \in Histories :
       /\ call = [cuboid_pose |-> Isometry(RotZ(90), <<1000, -2000, 500>>),
                  depth |-> 100, width |-> 300, height |-> 100,
                  axis |-> "none", axis_index |-> 0, config |-> cfg, grasp_candidate_config |-> cfg,
                  candidates_on_entry |-> h.candidates, id_on_entry |-> h.id]
       /\ grasp_candidates = h.candidates
       /\ grasp_id = h.id
       /\ ideal_grasp_pose_ = h.ideal
  /\ pc = "generateGrasps"
  /\ grasp_poses = <<>>
  /\ locals = InitLocals
  /\ width_calls = <<>>
  /\ result = NoRet
  /\ IdleIH /\ IdleGIH /\ IdleScore
  /\ IdleViz
  /\ IdleConc
  /\ IdleWay

\* the caller calls generateGrasps once more, with the collection the first
\* call left and any of the grasp data
FollowingCall ==
  /\ pc = "returned"
  /\ earlier_call = NoCall
  /\ earlier_call' = [end_effector_type_ |-> grasp_data.end_effector_type_,
                      candidates_on_entry |-> call.candidates_on_entry,
                      grasp_candidates |-> grasp_candidates,
                      id_on_entry |-> call.id_on_entry, grasp_id |-> grasp_id,
                      width_calls |-> width_calls]
  /\ grasp_data' \in SeqProfiles
  /\ pc' = "generateGrasps"
  /\ call' = [call EXCEPT !.axis = "none", !.axis_index = 0, !.config = call.grasp_candidate_config,
                          !.candidates_on_entry = grasp_candidates, !.id_on_entry = grasp_id]
  /\ grasp_poses' = <<>>
  /\ locals' = InitLocals
  /\ width_calls' = <<>>
  /\ result' = NoRet
  /\ UNCHANGED <<wayVars, concVars, switches, visual_tools_, grasp_candidates, grasp_id, ideal_grasp_pose_,
                 isectVars, gisectVars, scoreVars>>

NextSeq ==
  \/ GenerateGrasps
  \/ GenerateFingerGrasps
  \/ AddCornerGrasps
  \/ AddFaceGrasps
  \/ BeginVariableAngle
  \/ SweepIterate
  \/ SweepStop
  \/ SweepNextDirection
  \/ AddEdgeGrasps
  \/ AddDepthGrasps
  \/ AddBidirectional
  \/ ComputeMinMax
  \/ AddGrasp
  \/ ReturnFromAxis
  \/ GenerateSuctionGrasps
  \/ SuctionPush
  \/ SuctionNextPose
  \/ SuctionNextStage
  \/ SuctionAddGrasp
  \/ SuctionReturn
  \/ FollowingCall

SpecSeq == InitSeq /\ [][NextSeq]_vars

\* C29: a finger call keeps the candidates it finds in the collection as an
\* unchanged prefix and appends behind them; a suction call leaves in the
\* collection candidates of its own poses only, one for each pose and none
\* of those it found
C29_FingerKeepsSuctionClears ==
  /\ grasp_data.end_effector_type_ = "FINGER" => IsPrefix(call.candidates_on_entry, grasp_candidates)
  /\ (grasp_data.end_effector_type_ = "SUCTION" /\ pc \in {"suction_sweep", "suction_add", "returned"}) =>
       /\ \A k \in DOMAIN grasp_candidates :
            /\ grasp_candidates[k].id >= call.id_on_entry
            /\ grasp_candidates[k].grasp_pose = grasp_poses[k]
       /\ pc = "returned" => Len(grasp_candidates) = Len(grasp_poses)

\* a suction call has returned its own candidates; the collection it was
\* given held a candidate older than the finger call before it and, behind
\* it, the candidates of that finger call
C29_Witness ==
  /\ SuctionReturned
  /\ earlier_call # NoCall
  /\ earlier_call.end_effector_type_ = "FINGER"
  /\ earlier_call.candidates_on_entry = <<StaleCandidate>>
  /\ Len(earlier_call.grasp_candidates) > 1
  /\ earlier_call.grasp_candidates[1] = StaleCandidate
  /\ call.candidates_on_entry = earlier_call.grasp_candidates
  /\ grasp_candidates # <<>>
  /\ \A k \in DOMAIN grasp_candidates, m \in DOMAIN call.candidates_on_entry :
       grasp_candidates[k] # call.candidates_on_entry[m]

\* the step is one call of addGrasp
AddGraspCalled ==
  \/ pc = "add" /\ locals.i <= Len(grasp_poses)
  \/ pc = "suction_add" /\ locals.i <= locals.num_grasps

\* C30: the counter goes up by one in every addGrasp call, with or without a
\* candidate pushed, and is touched by nothing else, from one generation
\* call to the next too; the candidates an addGrasp call pushes all carry
\* the counter's value at the call and the call's pose; so the ids in the
\* collection never decrease (in the order of the collection), and two
\* candidates of one id, which are neighbours, have the same pose
C30_IdsFromOneCounter ==
  [][/\ grasp_id' = IF AddGraspCalled THEN grasp_id + 1 ELSE grasp_id
     /\ AddGraspCalled =>
           /\ IsPrefix(grasp_candidates, grasp_candidates')
           /\ \A k \in (Len(grasp_candidates) + 1)..Len(grasp_candidates') :
                /\ grasp_candidates'[k].id = grasp_id
                /\ grasp_candidates'[k].grasp_pose = grasp_poses[locals.i]
     /\ \A k \in 1..(Len(grasp_candidates') - 1) :
          /\ grasp_candidates'[k].id <= grasp_candidates'[k + 1].id
          /\ grasp_candidates'[k].grasp_pose # grasp_candidates'[k + 1].grasp_pose =>
                grasp_candidates'[k].id # grasp_candidates'[k + 1].id]_vars

\* the second of two finger calls has returned: no addGrasp call of the
\* first pushed a candidate, yet each used up an id; of the second call's
\* ids one has three width variants and one has a single variant
C30_Witness ==
  /\ pc = "returned" /\ earlier_call # NoCall
  /\ earlier_call.end_effector_type_ = "FINGER" /\ grasp_data.end_effector_type_ = "FINGER"
  /\ call.id_on_entry > earlier_call.id_on_entry
  /\ \A n \in earlier_call.id_on_entry..(call.id_on_entry - 1) : CountId(grasp_candidates, n) = 0
  /\ \E n \in call.id_on_entry..(grasp_id - 1) : CountId(grasp_candidates, n) = 3
  /\ \E n \in call.id_on_entry..(grasp_id - 1) : CountId(grasp_candidates, n) = 1

====
